---- MODULE Spec2Model ----
(***************************************************************************)
(* SafeSplitX fraud risk scoring and real-time monitoring engine.          *)
(*                                                                         *)
(* Numbers.  Scores are fixed-point integers in units of 1/SCALE, money is *)
(* an integer number of cents (1/MONEY currency units), running means are  *)
(* exact fractions <<numerator, denominator>>.  Wall-clock time is counted *)
(* in minutes since the start; datetime.now() reads `now`.                 *)
(* isoformat()/fromisoformat() keep every digit of a datetime, so a        *)
(* timestamp stored as text is the clock reading it was made from.         *)
(***************************************************************************)
EXTENDS Integers, Sequences, FiniteSets, TLC

SCALE == 100 * 100
MONEY == 10 * 10

\* ---- bounds of the model ------------------------------------------------
MinutesPerTick == 15
MaxTime == 3
MaxHistory == 2
MaxAlerts == 2

Threads == {"w1", "w2"}
Users == {"u1", "u2"}
Groups == {"g1"}

NoneT == -1

Min(a, b) == IF a <= b THEN a ELSE b
Max(a, b) == IF a >= b THEN a ELSE b

\* ---- SmartNotificationSystem ---------------------------------------------
\* AlertSeverity ordinals used by _matches_rule
severity_levels == [INFO |-> 0, LOW |-> 1, MEDIUM |-> 2, HIGH |-> 3, CRITICAL |-> 4]

\* _setup_default_rules: the five rules installed by the constructor.
\* `conditions` lists the items of the rule's conditions dict; one of them
\* is <<kind, min, max>> for numeric ranges (max = -1: no upper
\* bound given, the code defaults it) or <<"alert_type", type>>.
DefaultRules ==
  << [name |-> "Critical Fraud Alert", conditions |-> <<<<"risk_score", 8000, -1>>>>,
      channels |-> <<"webhook", "email">>, severity_threshold |-> "CRITICAL",
      cooldown_minutes |-> 15, enabled |-> TRUE],
     [name |-> "High Risk Transaction", conditions |-> <<<<"risk_score", 6000, -1>>>>,
      channels |-> <<"webhook">>, severity_threshold |-> "HIGH",
      cooldown_minutes |-> 30, enabled |-> TRUE],
     [name |-> "Velocity Alert", conditions |-> <<<<"alert_type", "velocity_risk">>>>,
      channels |-> <<"webhook", "in_app">>, severity_threshold |-> "MEDIUM",
      cooldown_minutes |-> 45, enabled |-> TRUE],
     [name |-> "Group Coordination Alert", conditions |-> <<<<"alert_type", "coordination_risk">>>>,
      channels |-> <<"webhook", "email">>, severity_threshold |-> "HIGH",
      cooldown_minutes |-> 20, enabled |-> TRUE],
     [name |-> "Large Amount Alert", conditions |-> <<<<"expense_amount", 5000 * MONEY, -1>>>>,
      channels |-> <<"webhook">>, severity_threshold |-> "MEDIUM",
      cooldown_minutes |-> 60, enabled |-> TRUE] >>

RuleIds == 1..Len(DefaultRules)

\* order in which process_risk_analysis walks the risk_scores dict
RiskTypeOrder == <<"velocity_risk", "coordination_risk", "overall_realtime_risk">>

\* _create_alert: severity from the score
AlertSeverityOf(risk_score) ==
  IF risk_score >= 8000 THEN "CRITICAL"
  ELSE IF risk_score >= 6000 THEN "HIGH"
  ELSE IF risk_score >= 4000 THEN "MEDIUM"
  ELSE "LOW"

\* _create_alert: the id is risk type, creation time (to the second) and user
AlertId(risk_type, t, user_id) == <<risk_type, t, user_id>>

CreateAlert(risk_type, risk_score, expense, t) ==
  [id |-> AlertId(risk_type, t, expense.user_id),
   severity |-> AlertSeverityOf(risk_score),
   risk_type |-> risk_type,
   user_id |-> expense.user_id,
   group_id |-> expense.group_id,
   expense_amount |-> expense.amount,
   risk_score |-> risk_score,
   acknowledged |-> FALSE,
   resolved |-> FALSE]

\* _matches_rule, one item of rule.conditions
ConditionHolds(alert, cond) ==
  CASE cond[1] = "risk_score" ->
         /\ cond[2] <= alert.risk_score
         /\ alert.risk_score <= (IF cond[3] = -1 THEN SCALE ELSE cond[3])
    [] cond[1] = "expense_amount" ->
         /\ cond[2] <= alert.expense_amount
         /\ (cond[3] = -1 \/ alert.expense_amount <= cond[3])
    [] cond[1] = "alert_type" -> cond[2] = alert.risk_type
    [] OTHER -> TRUE

\* _matches_rule with the severity compared strictly
MatchesRule_above(alert, rule) ==
  /\ severity_levels[alert.severity] > severity_levels[rule.severity_threshold]
  /\ \A i \in DOMAIN rule.conditions : ConditionHolds(alert, rule.conditions[i])

\* _matches_rule
MatchesRule(alert, rule) ==
  /\ severity_levels[alert.severity] >= severity_levels[rule.severity_threshold]
  /\ \A i \in DOMAIN rule.conditions : ConditionHolds(alert, rule.conditions[i])

ShouldNotify_ge(rule, last, t) ==
  \/ last = NoneT
  \/ t - last >= rule.cooldown_minutes

\* _should_notify
ShouldNotify(rule, last, t) ==
  \/ last = NoneT
  \/ t - last > rule.cooldown_minutes

\* ---- exact fractions -------------------------------------------------------
RECURSIVE GCD(_, _)
GCD(a, b) == IF b = 0 THEN a ELSE GCD(b, a % b)

Abs(x) == IF x < 0 THEN -x ELSE x

\* the fraction n/d (d > 0) in lowest terms
Rat(n, d) ==
  LET g == GCD(Abs(n), d) IN IF g = 0 THEN <<0, 1>> ELSE <<n \div g, d \div g>>

RECURSIVE SumSeq(_)
SumSeq(q) == IF q = <<>> THEN 0 ELSE Head(q) + SumSeq(Tail(q))

\* seq[-n:]
LastN(q, n) == IF Len(q) > n THEN SubSeq(q, Len(q) - n + 1, Len(q)) ELSE q

InSeq(x, q) == \E i \in DOMAIN q : q[i] = x

\* dict assignment d[k] = v
Put(d, k, v) == [x \in DOMAIN d \cup {k} |-> IF x = k THEN v ELSE d[x]]

\* the wall clock at tick 0 (a Wednesday noon); datetime.now().hour and
\* datetime.now().weekday() at tick t
Epoch == [hour |-> 12, weekday |-> 2]

HourOf(t) == ((Epoch.hour * 60 + t) \div 60) % 24

WeekdayOf(t) == (Epoch.weekday + (Epoch.hour * 60 + t) \div (24 * 60)) % 7

\* dict.get(k, default)
Get(d, k, default) == IF k \in DOMAIN d THEN d[k] ELSE default

\* str.lower() on the vocabulary of the inputs
Lower(s) ==
  IF s = "Unknown" THEN "unknown"
  ELSE IF s = "Cash Advance" THEN "cash advance"
  ELSE s

\* any(w in s for w in words): no word of the vocabulary is a proper part of
\* another one, so "w in s" is w = s
AnyIn(words, s) == s \in words

\* ---- BehavioralAnalyzer ----------------------------------------------------
\* UserProfile(user_id=...) with the dataclass defaults
NewUserProfile ==
  [total_expenses |-> 0, avg_amount |-> <<0, 1>>, favorite_categories |-> <<>>,
   usual_times |-> <<>>, frequent_locations |-> <<>>,
   preferred_payment_methods |-> <<>>, risk_score |-> 0]

\* GroupProfile(group_id=...) with the dataclass defaults
NewGroupProfile ==
  [avg_expense_amount |-> <<0, 1>>, common_categories |-> <<>>,
   risk_incidents |-> 0, trust_score |-> SCALE]

\* the average moved halfway to the new amount
NewAvgAmount_halfway(avg, n, amount) == Rat(avg[1] + amount * avg[2], avg[2] * 2)

\* update_profiles: avg_amount = ((avg_amount * (n - 1)) + amount) / n
NewAvgAmount(avg, n, amount) == Rat(avg[1] * (n - 1) + amount * avg[2], avg[2] * n)

\* the user part with the list of categories never cut back
UpdateUserRest_untrimmed(p, e, is_fraud, t) ==
  LET category == Get(e, "category", "other")
      payment_method == Get(e, "payment_method", "unknown")
      location == Get(e, "location", "unknown")
  IN
  [p EXCEPT
     !.favorite_categories =
        IF InSeq(category, @) THEN @ ELSE Append(@, category),
     !.usual_times =
        IF "timestamp" \notin DOMAIN e THEN LastN(Append(@, HourOf(t)), 20)
        ELSE IF e.timestamp.iso THEN LastN(Append(@, e.timestamp.hour), 20)
        ELSE @,
     !.preferred_payment_methods =
        IF InSeq(payment_method, @) THEN @ ELSE Append(@, payment_method),
     !.frequent_locations =
        IF InSeq(location, @) THEN @ ELSE LastN(Append(@, location), 10),
     !.risk_score = IF is_fraud THEN Min(SCALE, @ + SCALE \div 10)
                                ELSE Max(0, @ - SCALE \div 100)]

\* update_profiles, user part after the count and the average
UpdateUserRest(p, e, is_fraud, t) ==
  LET category == Get(e, "category", "other")
      payment_method == Get(e, "payment_method", "unknown")
      location == Get(e, "location", "unknown")
  IN
  [p EXCEPT
     !.favorite_categories =
        IF InSeq(category, @) THEN @ ELSE LastN(Append(@, category), 5),
     !.usual_times =
        IF "timestamp" \notin DOMAIN e THEN LastN(Append(@, HourOf(t)), 20)
        ELSE IF e.timestamp.iso THEN LastN(Append(@, e.timestamp.hour), 20)
        ELSE @,
     !.preferred_payment_methods =
        IF InSeq(payment_method, @) THEN @ ELSE Append(@, payment_method),
     !.frequent_locations =
        IF InSeq(location, @) THEN @ ELSE LastN(Append(@, location), 10),
     !.risk_score = IF is_fraud THEN Min(SCALE, @ + SCALE \div 10)
                                ELSE Max(0, @ - SCALE \div 100)]

\* update_profiles, group part: GroupProfile has no total_expenses attribute,
\* so getattr(group_profile, 'total_expenses', 1) is always 1
UpdateGroup(g, e, is_fraud) ==
  LET total_expenses == 1
      amount == Get(e, "amount", 0)
      category == Get(e, "category", "other")
  IN
  [g EXCEPT
     !.avg_expense_amount =
        Rat(@[1] * total_expenses + amount * @[2], @[2] * (total_expenses + 1)),
     !.common_categories =
        IF InSeq(category, @) THEN @ ELSE LastN(Append(@, category), 5),
     !.risk_incidents = IF is_fraud THEN @ + 1 ELSE @,
     !.trust_score = IF is_fraud THEN Max(0, @ - SCALE \div 20)
                                 ELSE Min(SCALE, @ + SCALE \div 1000)]

\* ---- RealTimeRiskEngine ----------------------------------------------------
monitoring_window_minutes == 60
UserWindowMax == 100
GroupWindowMax == 200
RecentEventsMax == 10000

\* a list that is never trimmed
DequeAppend_unbounded(q, x, n) == Append(q, x)

\* deque(maxlen=n).append(x)
DequeAppend(q, x, n) == IF Len(q) >= n THEN Append(Tail(q), x) ELSE Append(q, x)

\* while q and q[0][0] < cutoff_time: q.popleft()
RECURSIVE EvictOld(_, _)
EvictOld(q, t) ==
  IF q # <<>> /\ Head(q)[1] < t - monitoring_window_minutes
    THEN EvictOld(Tail(q), t) ELSE q

\* _analyze_velocity: the user's window after the append and the eviction
VelocityWindow(q, amount, t) == EvictOld(DequeAppend(q, <<t, amount>>, UserWindowMax), t)

\* the score with the same-instant shortcut treated as no signal
VelocityScore_calm(w, t) ==
  IF Len(w) < 2 THEN SCALE \div 10
  ELSE LET recent_count == Len(w)
           total_amount == SumSeq([i \in DOMAIN w |-> w[i][2]])
           span_minutes == t - w[1][1]
       IN IF span_minutes = 0 THEN SCALE \div 10
          ELSE LET frequency_risk == Min(SCALE, (recent_count * SCALE) \div 20)
                   amount_velocity_risk ==
                     Min(SCALE, (total_amount * ((60 * SCALE) \div (1000 * MONEY))) \div span_minutes)
               IN (frequency_risk + amount_velocity_risk) \div 2

\* _analyze_velocity: the score computed from that window
VelocityScore(w, t) ==
  IF Len(w) < 2 THEN SCALE \div 10
  ELSE LET recent_count == Len(w)
           total_amount == SumSeq([i \in DOMAIN w |-> w[i][2]])
           span_minutes == t - w[1][1]
       IN IF span_minutes = 0 THEN (9 * SCALE) \div 10
          ELSE LET frequency_risk == Min(SCALE, (recent_count * SCALE) \div 20)
                   amount_velocity_risk ==
                     Min(SCALE, (total_amount * ((60 * SCALE) \div (1000 * MONEY))) \div span_minutes)
               IN (frequency_risk + amount_velocity_risk) \div 2

\* floor(a * SCALE / c) for 0 <= a and 0 < c, in two steps of 100 so that no
\* intermediate product leaves the machine integers
ScaledDiv(a, c) ==
  LET x1 == (a * 100) \div c
      r1 == (a * 100) % c
  IN x1 * 100 + (r1 * 100) \div c

\* min(1.0, a / c) for 0 <= a and 0 < c
CappedRatio(a, c) == IF a >= c THEN SCALE ELSE ScaledDiv(a, c)

\* integer square root (Newton)
RECURSIVE ISqrtIter(_, _)
ISqrtIter(v, x) ==
  LET y == (x + v \div x) \div 2 IN IF y >= x THEN x ELSE ISqrtIter(v, y)

ISqrt(v) == IF v <= 0 THEN 0 ELSE ISqrtIter(v, v)

\* suspicious_patterns
round_amounts == {100 * MONEY, 250 * MONEY, 500 * MONEY, 1000 * MONEY, 2000 * MONEY, 5000 * MONEY}
common_fraud_categories == {"cash_advance", "gift_cards", "cryptocurrency", "gambling"}
high_risk_locations == {"atm", "casino", "pawn_shop", "gas_station"}
suspicious_words == {"cash", "advance", "atm", "withdrawal", "transfer", "urgent", "emergency"}

\* the four weights added up and not divided by the number of indicators
PatternScore_undivided(e) ==
  LET risk_score ==
        (IF Get(e, "amount", 0) \in round_amounts THEN (3 * SCALE) \div 10 ELSE 0)
      + (IF AnyIn(common_fraud_categories, Lower(Get(e, "category", ""))) THEN (4 * SCALE) \div 10 ELSE 0)
      + (IF AnyIn(high_risk_locations, Lower(Get(e, "location", ""))) THEN (3 * SCALE) \div 10 ELSE 0)
      + (IF AnyIn(suspicious_words, Lower(Get(e, "description", ""))) THEN (2 * SCALE) \div 10 ELSE 0)
  IN Min(SCALE, risk_score)

\* _analyze_patterns
PatternScore(e) ==
  LET risk_score ==
        (IF Get(e, "amount", 0) \in round_amounts THEN (3 * SCALE) \div 10 ELSE 0)
      + (IF AnyIn(common_fraud_categories, Lower(Get(e, "category", ""))) THEN (4 * SCALE) \div 10 ELSE 0)
      + (IF AnyIn(high_risk_locations, Lower(Get(e, "location", ""))) THEN (3 * SCALE) \div 10 ELSE 0)
      + (IF AnyIn(suspicious_words, Lower(Get(e, "description", ""))) THEN (2 * SCALE) \div 10 ELSE 0)
      factors == 4
  IN Min(SCALE, risk_score \div Max(1, factors))

\* _analyze_group_coordination: the group's window after the append and the
\* eviction
CoordinationWindow(q, e, t) == EvictOld(DequeAppend(q, <<t, e>>, GroupWindowMax), t)

\* the score without the check for equal amounts
CoordinationScore_no_amounts(w) ==
  IF Len(w) < 2 THEN SCALE \div 10
  ELSE LET last5 == LastN(w, 5)
           categories == {Get(last5[i][2], "category", "") : i \in DOMAIN last5}
           times == LastN(w, 10)
       IN IF Cardinality(categories) = 1 /\ Len(last5) > 2 THEN (6 * SCALE) \div 10
          ELSE IF /\ Len(times) > 3
                  /\ \A i \in 2..Len(times) :
                        (times[i][1] - times[i - 1][1]) * 60 < 300
               THEN (7 * SCALE) \div 10
          ELSE (2 * SCALE) \div 10

\* _analyze_group_coordination: the score computed from that window
CoordinationScore(w) ==
  IF Len(w) < 2 THEN SCALE \div 10
  ELSE LET last5 == LastN(w, 5)
           amounts == {Get(last5[i][2], "amount", 0) : i \in DOMAIN last5}
           categories == {Get(last5[i][2], "category", "") : i \in DOMAIN last5}
           times == LastN(w, 10)
       IN IF Cardinality(amounts) = 1 /\ Len(last5) > 1 THEN (8 * SCALE) \div 10
          ELSE IF Cardinality(categories) = 1 /\ Len(last5) > 2 THEN (6 * SCALE) \div 10
          ELSE IF /\ Len(times) > 3
                  /\ \A i \in 2..Len(times) :
                        (times[i][1] - times[i - 1][1]) * 60 < 300
               THEN (7 * SCALE) \div 10
          ELSE (2 * SCALE) \div 10

\* [event.details for event in recent_events if event.user_id == user_id]
RECURSIVE DetailsOf(_, _)
DetailsOf(events, user_id) ==
  IF events = <<>> THEN <<>>
  ELSE IF Head(events).user_id = user_id
         THEN <<Head(events).details>> \o DetailsOf(Tail(events), user_id)
         ELSE DetailsOf(Tail(events), user_id)

\* _detect_anomalies: min(1.0, z_score / 3).  With n amounts of sum S,
\* n * |amount - mean| = |n * amount - S| and n * std = sqrt(n * sum(x^2) - S^2);
\* the squares are taken of whole currency units.
AmountAnomaly(amounts, amount) ==
  LET n == Len(amounts)
      S == SumSeq(amounts)
      D == Abs(n * amount - S)
      units == [i \in DOMAIN amounts |-> amounts[i] \div MONEY]
      V == n * SumSeq([i \in DOMAIN units |-> units[i] * units[i]])
             - SumSeq(units) * SumSeq(units)
      nstd == IF n > 1 /\ V > 0 THEN ISqrt(V) * MONEY   \* np.std(amounts)
              ELSE IF n > 1 THEN S \div 10               \* avg_amount * 0.1
              ELSE S \div 2                              \* avg_amount * 0.5
  IN IF nstd > 0 THEN CappedRatio(D, 3 * nstd) ELSE 0

\* the two anomalies added up instead of averaged
AnomalyScore_sum(events, e) ==
  LET user_transactions == LastN(DetailsOf(events, Get(e, "user_id", "unknown")), 20)
      amount == Get(e, "amount", 0)
      category == Get(e, "category", "")
  IN
  IF user_transactions = <<>> THEN (3 * SCALE) \div 10
  ELSE LET amounts == [i \in DOMAIN user_transactions |->
                         Get(user_transactions[i], "amount", 0)]
           n == Len(user_transactions)
           same == Cardinality({i \in DOMAIN user_transactions :
                                  Get(user_transactions[i], "category", "") = category})
           category_anomaly == SCALE - (same * SCALE) \div n
       IN AmountAnomaly(amounts, amount) + category_anomaly

\* _detect_anomalies
AnomalyScore(events, e) ==
  LET user_transactions == LastN(DetailsOf(events, Get(e, "user_id", "unknown")), 20)
      amount == Get(e, "amount", 0)
      category == Get(e, "category", "")
  IN
  IF user_transactions = <<>> THEN (3 * SCALE) \div 10
  ELSE LET amounts == [i \in DOMAIN user_transactions |->
                         Get(user_transactions[i], "amount", 0)]
           n == Len(user_transactions)
           same == Cardinality({i \in DOMAIN user_transactions :
                                  Get(user_transactions[i], "category", "") = category})
           category_anomaly == SCALE - (same * SCALE) \div n
       IN (AmountAnomaly(amounts, amount) + category_anomaly) \div 2

\* _analyze_temporal_patterns
TemporalScore(e, t) ==
  LET hour == HourOf(t)
      day_of_week == WeekdayOf(t)
  IN Min(SCALE,
        (IF hour >= 23 \/ hour <= 5 THEN (4 * SCALE) \div 10 ELSE 0)
      + (IF /\ 9 <= hour /\ hour <= 17 /\ day_of_week < 5
            /\ AnyIn({"entertainment", "shopping", "dining"}, Lower(Get(e, "category", "")))
           THEN (2 * SCALE) \div 10 ELSE 0)
      + (IF day_of_week >= 5 /\ Get(e, "amount", 0) > 1000 * MONEY THEN (3 * SCALE) \div 10 ELSE 0))

suspicious_thresholds == {999, 1999, 2999, 4999, 9999}

\* _analyze_amount_suspicion with the two size tiers exchanged
AmountSuspicion_swapped(amount) ==
  IF amount >= 100 * MONEY /\ amount % (100 * MONEY) = 0 THEN (3 * SCALE) \div 10
  ELSE IF \E th \in suspicious_thresholds :
             (th - 50) * MONEY <= amount /\ amount <= th * MONEY THEN (5 * SCALE) \div 10
  ELSE IF amount > 10000 * MONEY THEN (4 * SCALE) \div 10
  ELSE IF amount > 5000 * MONEY THEN (6 * SCALE) \div 10
  ELSE IF amount <= 1 * MONEY THEN (3 * SCALE) \div 10
  ELSE SCALE \div 10

\* _analyze_amount_suspicion
AmountSuspicion(amount) ==
  IF amount >= 100 * MONEY /\ amount % (100 * MONEY) = 0 THEN (3 * SCALE) \div 10
  ELSE IF \E th \in suspicious_thresholds :
             (th - 50) * MONEY <= amount /\ amount <= th * MONEY THEN (5 * SCALE) \div 10
  ELSE IF amount > 10000 * MONEY THEN (6 * SCALE) \div 10
  ELSE IF amount > 5000 * MONEY THEN (4 * SCALE) \div 10
  ELSE IF amount <= 1 * MONEY THEN (3 * SCALE) \div 10
  ELSE SCALE \div 10

\* the levels cut for a mean of five signals
CategorizeRealtime_of_five(x) ==
  IF x >= 5 * ((8 * SCALE) \div 10) THEN "CRITICAL"
  ELSE IF x >= 5 * ((6 * SCALE) \div 10) THEN "HIGH"
  ELSE IF x >= 5 * ((4 * SCALE) \div 10) THEN "MEDIUM"
  ELSE IF x >= 5 * ((2 * SCALE) \div 10) THEN "LOW"
  ELSE "MINIMAL"

\* RealTimeRiskEngine._categorize_risk, on a mean of six signals: x is the
\* sum of the six, so the mean is x / 6
CategorizeRealtime(x) ==
  IF x >= 6 * ((8 * SCALE) \div 10) THEN "CRITICAL"
  ELSE IF x >= 6 * ((6 * SCALE) \div 10) THEN "HIGH"
  ELSE IF x >= 6 * ((4 * SCALE) \div 10) THEN "MEDIUM"
  ELSE IF x >= 6 * ((2 * SCALE) \div 10) THEN "LOW"
  ELSE "MINIMAL"

\* analyze_real_time_risk: the engine's three stores after the call, the six
\* signals, their sum (overall_realtime_risk is a sixth of it) and the level
AnalyzeRealTimeRisk(uv, ga, events, e, t) ==
  LET user_id == Get(e, "user_id", "unknown")
      group_id == Get(e, "group_id", "unknown")
      amount == Get(e, "amount", 0)
      uw == VelocityWindow(Get(uv, user_id, <<>>), amount, t)
      gw == CoordinationWindow(Get(ga, group_id, <<>>), e, t)
      risk_scores ==
        [velocity_risk |-> VelocityScore(uw, t),
         pattern_risk |-> PatternScore(e),
         coordination_risk |-> CoordinationScore(gw),
         anomaly_risk |-> AnomalyScore(events, e),
         temporal_risk |-> TemporalScore(e, t),
         amount_suspicion |-> AmountSuspicion(amount)]
      total == risk_scores.velocity_risk + risk_scores.pattern_risk
             + risk_scores.coordination_risk + risk_scores.anomaly_risk
             + risk_scores.temporal_risk + risk_scores.amount_suspicion
      event == [timestamp |-> t, user_id |-> user_id, group_id |-> group_id,
                risk_total |-> total, details |-> e]
  IN [user_velocities |-> Put(uv, user_id, uw),
      group_activities |-> Put(ga, group_id, gw),
      recent_events |-> DequeAppend(events, event, RecentEventsMax),
      risk_scores |-> risk_scores,
      risk_total |-> total,
      risk_level |-> CategorizeRealtime(total)]

\* ---- ExpenseIn ------------------------------------------------------------
\* abs(total_participant_amount - total_amount) > 0.01, amounts in whole cents
AmountsDiffer(participants, amount) ==
  Abs(SumSeq([i \in DOMAIN participants |-> participants[i].amount]) - amount) > MONEY \div 100

\* the fields of ExpenseIn in the order of their declaration, which is the
\* order in which they are validated
ExpenseInFields ==
  <<"expense_id", "group_id", "payer_id", "participants", "amount", "currency",
    "merchant", "category", "timestamp", "itemized">>

\* ParticipantInfo: user_id required, amount required and > 0
ParticipantInfoValid(p) ==
  /\ "user_id" \in DOMAIN p
  /\ "amount" \in DOMAIN p
  /\ p.amount > 0

\* validator('participants'): validate_participants_amount(v, values), where
\* `values` holds the fields validated before this one
ValidateParticipantsAmount(v, e, values) ==
  IF "amount" \notin values THEN TRUE ELSE ~AmountsDiffer(v, e.amount)

max_amount == 1000 * 1000 * MONEY

\* validation of one field of ExpenseIn (Field(...) constraints and validators)
FieldValid(e, k, values) ==
  IF k \in {"merchant", "category", "itemized"} THEN TRUE
  ELSE /\ k \in DOMAIN e
       /\ CASE k = "participants" ->
                 /\ Len(e[k]) >= 1
                 /\ \A i \in DOMAIN e[k] : ParticipantInfoValid(e[k][i])
                 /\ ValidateParticipantsAmount(e[k], e, values)
            [] k = "amount" -> e[k] > 0 /\ e[k] <= max_amount
            [] k = "currency" -> e[k] \in {"USD", "EUR"}
            [] k = "timestamp" -> e[k].iso
            [] OTHER -> TRUE

\* the names of the fields that have passed validation before field number i
RECURSIVE ValuesBefore(_, _)
ValuesBefore(e, i) ==
  IF i <= 1 THEN {}
  ELSE LET prev == ValuesBefore(e, i - 1)
           k == ExpenseInFields[i - 1]
       IN IF k \in DOMAIN e /\ FieldValid(e, k, prev) THEN prev \cup {k} ELSE prev

\* ExpenseIn(**body) raises no ValidationError
ExpenseInValid(e) ==
  \A i \in DOMAIN ExpenseInFields :
     FieldValid(e, ExpenseInFields[i], ValuesBefore(e, i))

\* ---- RuleEngine -----------------------------------------------------------
amount_multiplier_threshold == 5
max_participants_threshold == 20
suspicious_categories == {"gambling", "adult"}
suspicious_merchants == {""}

Violation(rule_name, severity, confidence) ==
  [rule_name |-> rule_name, severity |-> severity, confidence |-> confidence]

\* _check_excessive_amount; amount_vs_group in units of 1/SCALE
CheckExcessiveAmount(amount_vs_group) ==
  IF amount_vs_group > amount_multiplier_threshold * SCALE
    THEN <<Violation("excessive_amount",
              IF amount_vs_group > amount_multiplier_threshold * 2 * SCALE
                THEN "high" ELSE "medium",
              Min((9 * SCALE) \div 10, amount_vs_group \div (amount_multiplier_threshold * 2)))>>
    ELSE <<>>

\* _check_participant_mismatch
CheckParticipantMismatch(e) ==
  (IF AmountsDiffer(e.participants, e.amount)
     THEN <<Violation("amount_mismatch", "high", (95 * SCALE) \div 100)>> ELSE <<>>)
  \o
  (IF Cardinality({e.participants[i].user_id : i \in DOMAIN e.participants})
        # Len(e.participants)
     THEN <<Violation("duplicate_participants", "medium", (9 * SCALE) \div 10)>> ELSE <<>>)

\* _check_blacklisted_entities
CheckBlacklistedEntities(e) ==
  (IF /\ "merchant" \in DOMAIN e /\ e.merchant # ""
      /\ Lower(e.merchant) \in suspicious_merchants
     THEN <<Violation("blacklisted_merchant", "high", (95 * SCALE) \div 100)>> ELSE <<>>)
  \o
  (IF /\ "category" \in DOMAIN e /\ e.category # ""
      /\ Lower(e.category) \in suspicious_categories
     THEN <<Violation("suspicious_category", "medium", (8 * SCALE) \div 10)>> ELSE <<>>)

\* _check_time_patterns: comparing a timezone-aware expense_time with the
\* naive utcnow() raises TypeError, which the handler swallows after the
\* hour check has run
CheckTimePatterns(e) ==
  (IF 2 <= e.timestamp.hour /\ e.timestamp.hour <= 5
     THEN <<Violation("unusual_time", "low", (4 * SCALE) \div 10)>> ELSE <<>>)
  \o
  (IF ~e.timestamp.aware /\ e.timestamp.ahead > 60
     THEN <<Violation("future_timestamp", "high", (9 * SCALE) \div 10)>> ELSE <<>>)

\* _check_participant_count
CheckParticipantCount(e) ==
  IF Len(e.participants) > max_participants_threshold
    THEN <<Violation("excessive_participants", "medium", (7 * SCALE) \div 10)>> ELSE <<>>

\* _check_payer_participation
CheckPayerParticipation(e) ==
  IF \E i \in DOMAIN e.participants : e.participants[i].user_id = e.payer_id
    THEN <<>>
    ELSE <<Violation("payer_not_participating", "medium", (6 * SCALE) \div 10)>>

\* _check_amount_precision; an amount in whole cents never has more than two
\* decimals
CheckAmountPrecision(e) ==
  IF e.amount % MONEY = 0 /\ e.amount >= 100 * MONEY
    THEN <<Violation("round_amount", "low", (3 * SCALE) \div 10)>> ELSE <<>>

\* check_rules with historical_data = [] (rule 4 is skipped)
CheckRules(e, amount_vs_group) ==
  CheckExcessiveAmount(amount_vs_group) \o CheckParticipantMismatch(e)
    \o CheckBlacklistedEntities(e) \o CheckTimePatterns(e)
    \o CheckParticipantCount(e) \o CheckPayerParticipation(e)
    \o CheckAmountPrecision(e)

\* ---- EnsembleModel --------------------------------------------------------
severity_weights ==
  [low |-> (3 * SCALE) \div 10, medium |-> (6 * SCALE) \div 10, high |-> (9 * SCALE) \div 10]

\* the weighted confidences added up, not normalised by the weights
CalculateRuleScore_sum(violations) ==
  IF violations = <<>> THEN 0
  ELSE LET total_score ==
             SumSeq([i \in DOMAIN violations |->
                       severity_weights[violations[i].severity] * violations[i].confidence])
       IN Min(SCALE, total_score \div SCALE)

\* _calculate_rule_score
CalculateRuleScore(violations) ==
  IF violations = <<>> THEN 0
  ELSE LET total_score ==
             SumSeq([i \in DOMAIN violations |->
                       severity_weights[violations[i].severity] * violations[i].confidence])
           max_possible_score ==
             SumSeq([i \in DOMAIN violations |-> severity_weights[violations[i].severity]])
       IN IF max_possible_score > 0
            THEN Min(SCALE, total_score \div max_possible_score) ELSE 0

\* _combine_scores
CombineScores(ens, ml_score, rule_score) ==
  LET combined == (ens.ml_weight * ml_score + ens.rule_weight * rule_score) \div SCALE IN
  IF ml_score > SCALE \div 2 /\ rule_score > SCALE \div 2
    THEN Min(SCALE, (combined * 11) \div 10)
    ELSE combined

\* EnsembleModel.__init__ with no ML_WEIGHT, RULE_WEIGHT or SUSPICION_THRESHOLD
\* in the environment, around a fitted model
DefaultEnsemble ==
  [ml_weight |-> (7 * SCALE) \div 10, rule_weight |-> (3 * SCALE) \div 10,
   suspicion_threshold |-> (6 * SCALE) \div 10, ml_model |-> "fitted",
   loaded |-> TRUE]

\* Dependencies._ensemble_model = None
NoEnsemble == [DefaultEnsemble EXCEPT !.loaded = FALSE]

\* predict_single, the "safe default" of its except branch
ErrorResult ==
  [anomaly_score |-> 0, is_suspicious |-> FALSE, ml_score |-> 0, rule_score |-> 0,
   rule_violations |-> <<>>, model_version |-> "error"]

\* predict_single; ml is what the anomaly model does when it is called
PredictSingle(ens, e, amount_vs_group, ml) ==
  IF ens.ml_model = "fitted" /\ (ml.predict_raises \/ ml.explain_raises)
    THEN ErrorResult
  ELSE LET ml_score == IF ens.ml_model = "fitted" THEN ml.proba ELSE 0
           rule_violations == CheckRules(e, amount_vs_group)
           rule_score == CalculateRuleScore(rule_violations)
           final_score == CombineScores(ens, ml_score, rule_score)
       IN [anomaly_score |-> final_score,
           is_suspicious |-> final_score >= ens.suspicion_threshold,
           ml_score |-> ml_score, rule_score |-> rule_score,
           rule_violations |-> rule_violations,
           model_version |-> IF ens.ml_model = "none" THEN "rules_only" ELSE "v1"]

VARIABLES
  now,                   \* the wall clock
  last_triggered,        \* NotificationRule.last_triggered, per rule
  notification_history,  \* SmartNotificationSystem.notification_history
  active_alerts,         \* SmartNotificationSystem.active_alerts: id -> Alert
  pc,                    \* where each worker is inside its call
  frame,                 \* each worker's locals
  user_profiles,         \* BehavioralAnalyzer.user_profiles: user_id -> UserProfile
  group_profiles,        \* BehavioralAnalyzer.group_profiles: group_id -> GroupProfile
  user_velocities,       \* RealTimeRiskEngine.user_velocities: user_id -> deque
  submitted,             \* history variable: per user, the updates that have completed
  group_activities,      \* RealTimeRiskEngine.group_activities: group_id -> deque
  recent_events,         \* RealTimeRiskEngine.recent_events
  ensemble,              \* Dependencies._ensemble_model
  request,               \* the request an endpoint served last
  response,              \* and what it answered
  model_cache            \* deps._model_cache: the ModelCache of the module

engineVars == <<user_profiles, group_profiles, user_velocities, submitted>>
notifyVars == <<last_triggered, notification_history, active_alerts>>

apiVars == <<ensemble, request, response, model_cache>>
windowVars == <<group_activities, recent_events>>

vars == <<now, last_triggered, notification_history, active_alerts, pc, frame,
          user_profiles, group_profiles, user_velocities, submitted,
          group_activities, recent_events, ensemble, request, response, model_cache>>

NoExpense == [user_id |-> "unknown", group_id |-> "unknown", amount |-> 0,
              category |-> "other", location |-> "unknown", description |-> "",
              payment_method |-> "unknown"]

IdleFrame == [alerts |-> <<>>, ai |-> 0, ri |-> 0, ci |-> 0, checked_at |-> NoneT,
              expense |-> NoExpense, is_fraud |-> FALSE, tmp |-> 0]

\* ModelCache.__init__
DefaultMaxSize == 3
NewModelCache(max_size) == [cache |-> <<>>, max_size |-> max_size, access_order |-> <<>>]

NoRequest == [endpoint |-> "none"]
NoResponse == [status |-> 0]

Init ==
  /\ now = 0
  /\ last_triggered = [r \in RuleIds |-> NoneT]
  /\ notification_history = <<>>
  /\ active_alerts = <<>>
  /\ pc = [t \in Threads |-> "idle"]
  /\ frame = [t \in Threads |-> IdleFrame]
  /\ user_profiles = <<>>
  /\ group_profiles = <<>>
  /\ user_velocities = <<>>
  /\ submitted = <<>>
  /\ group_activities = <<>>
  /\ recent_events = <<>>
  /\ ensemble = DefaultEnsemble
  /\ request = NoRequest
  /\ response = NoResponse
  /\ model_cache = NewModelCache(DefaultMaxSize)

\* ---- inputs of process_risk_analysis -------------------------------------
AmountInputs == {100 * MONEY, 6000 * MONEY}
RiskScoreInputs ==
  { [overall_realtime_risk |-> 9000],
    [overall_realtime_risk |-> 7000],
    [velocity_risk |-> 9000, overall_realtime_risk |-> 5000] }
ExpenseInputs == [user_id : Users, group_id : Groups, amount : AmountInputs]

\* the risk types of a risk_scores dict, in iteration order, whose score is
\* above the 0.6 "significant risk" threshold of process_risk_analysis
RECURSIVE SignificantTypes(_, _)
SignificantTypes(risk_scores, i) ==
  IF i > Len(RiskTypeOrder) THEN <<>>
  ELSE LET ty == RiskTypeOrder[i]
           rest == SignificantTypes(risk_scores, i + 1)
       IN IF ty \in DOMAIN risk_scores /\ risk_scores[ty] > 6000
          THEN <<ty>> \o rest ELSE rest

\* dict assignment active_alerts[alert_id] = alert
RECURSIVE StoreAlerts(_, _)
StoreAlerts(store, alerts) ==
  IF alerts = <<>> THEN store
  ELSE LET a == Head(alerts)
           s2 == [k \in DOMAIN store \cup {a.id} |-> IF k = a.id THEN a ELSE store[k]]
       IN StoreAlerts(s2, Tail(alerts))

\* where the loops of process_risk_analysis / _process_alert go after rule
\* ri of alert ai has been dealt with
Advance(t) ==
  LET f == frame[t] IN
  IF f.ri < Len(DefaultRules)
    THEN /\ frame' = [frame EXCEPT ![t].ri = f.ri + 1, ![t].ci = 0, ![t].checked_at = NoneT]
         /\ pc' = [pc EXCEPT ![t] = "check"]
  ELSE IF f.ai < Len(f.alerts)
    THEN /\ frame' = [frame EXCEPT ![t].ai = f.ai + 1, ![t].ri = 1, ![t].ci = 0,
                                   ![t].checked_at = NoneT]
         /\ pc' = [pc EXCEPT ![t] = "check"]
  ELSE /\ frame' = [frame EXCEPT ![t] = IdleFrame]
       /\ pc' = [pc EXCEPT ![t] = "idle"]

\* process_risk_analysis up to the first _process_alert: create and store
\* one alert per significant risk type
ProcessRiskAnalysis(t, risk_scores, expense) ==
  /\ pc[t] = "idle"
  /\ Len(notification_history) < MaxHistory
  /\ LET types == SignificantTypes(risk_scores, 1)
         alerts == [i \in 1..Len(types) |->
                      CreateAlert(types[i], risk_scores[types[i]], expense, now)]
     IN /\ Cardinality(DOMAIN StoreAlerts(active_alerts, alerts)) <= MaxAlerts
        /\ active_alerts' = StoreAlerts(active_alerts, alerts)
        /\ IF alerts = <<>>
             THEN UNCHANGED <<pc, frame>>
             ELSE /\ pc' = [pc EXCEPT ![t] = "check"]
                  /\ frame' = [frame EXCEPT ![t] =
                       [IdleFrame EXCEPT !.alerts = alerts, !.ai = 1, !.ri = 1]]
  /\ UNCHANGED <<now, last_triggered, notification_history>>
  /\ UNCHANGED engineVars
  /\ UNCHANGED <<apiVars, windowVars>>

\* _process_alert, one rule, with the cooldown kept per user: a firing
\* about another user does not silence the rule
CheckRule_per_entity(t) ==
  /\ pc[t] = "check"
  /\ LET f == frame[t]
         rule == DefaultRules[f.ri]
         alert == f.alerts[f.ai]
         fired == {i \in DOMAIN notification_history :
                     notification_history[i].rule = rule.name}
     IN IF rule.enabled /\ MatchesRule(alert, rule)
           /\ \/ ShouldNotify(rule, last_triggered[f.ri], now)
              \/ \A i \in fired : notification_history[i].alert_id[3] # alert.user_id
          THEN /\ pc' = [pc EXCEPT ![t] = "send"]
               /\ frame' = [frame EXCEPT ![t].ci = 1, ![t].checked_at = now]
          ELSE Advance(t)
  /\ UNCHANGED <<now, last_triggered, notification_history, active_alerts>>
  /\ UNCHANGED engineVars
  /\ UNCHANGED <<apiVars, windowVars>>

\* _process_alert, one rule: enabled, _matches_rule, _should_notify
CheckRule(t) ==
  /\ pc[t] = "check"
  /\ LET f == frame[t]
         rule == DefaultRules[f.ri]
         alert == f.alerts[f.ai]
     IN IF rule.enabled /\ MatchesRule(alert, rule)
           /\ ShouldNotify(rule, last_triggered[f.ri], now)
          THEN /\ pc' = [pc EXCEPT ![t] = "send"]
               /\ frame' = [frame EXCEPT ![t].ci = 1, ![t].checked_at = now]
          ELSE Advance(t)
  /\ UNCHANGED <<now, last_triggered, notification_history, active_alerts>>
  /\ UNCHANGED engineVars
  /\ UNCHANGED <<apiVars, windowVars>>

\* channels whose send can raise; _store_in_app_notification only logs
CanFail(channel) == channel # "in_app"

\* _send_notifications without the try/except around each channel: a
\* failing channel ends the loop over the channels
SendChannel_abort(t, ok) ==
  /\ pc[t] = "send"
  /\ LET f == frame[t]
         rule == DefaultRules[f.ri]
         alert == f.alerts[f.ai]
         channel == rule.channels[f.ci]
     IN /\ (~ok) => CanFail(channel)
        /\ notification_history' = Append(notification_history,
             [alert_id |-> alert.id, channel |-> channel, timestamp |-> now,
              rule |-> rule.name, status |-> IF ok THEN "sent" ELSE "failed"])
        /\ IF ok /\ f.ci < Len(rule.channels)
             THEN /\ frame' = [frame EXCEPT ![t].ci = f.ci + 1]
                  /\ UNCHANGED pc
             ELSE /\ pc' = [pc EXCEPT ![t] = "stamp"]
                  /\ UNCHANGED frame
  /\ UNCHANGED <<now, last_triggered, active_alerts>>
  /\ UNCHANGED engineVars
  /\ UNCHANGED <<apiVars, windowVars>>

\* _send_notifications, one channel: the send and its history entry
SendChannel(t, ok) ==
  /\ pc[t] = "send"
  /\ LET f == frame[t]
         rule == DefaultRules[f.ri]
         alert == f.alerts[f.ai]
         channel == rule.channels[f.ci]
     IN /\ (~ok) => CanFail(channel)
        /\ notification_history' = Append(notification_history,
             [alert_id |-> alert.id, channel |-> channel, timestamp |-> now,
              rule |-> rule.name, status |-> IF ok THEN "sent" ELSE "failed"])
        /\ IF f.ci < Len(rule.channels)
             THEN /\ frame' = [frame EXCEPT ![t].ci = f.ci + 1]
                  /\ UNCHANGED pc
             ELSE /\ pc' = [pc EXCEPT ![t] = "stamp"]
                  /\ UNCHANGED frame
  /\ UNCHANGED <<now, last_triggered, active_alerts>>
  /\ UNCHANGED engineVars
  /\ UNCHANGED <<apiVars, windowVars>>

\* the rule stamped only when the last send of the firing went through
StampRule_if_sent(t) ==
  /\ pc[t] = "stamp"
  /\ last_triggered' =
       IF notification_history[Len(notification_history)].status = "sent"
         THEN [last_triggered EXCEPT ![frame[t].ri] = now]
         ELSE last_triggered
  /\ Advance(t)
  /\ UNCHANGED <<now, notification_history, active_alerts>>
  /\ UNCHANGED engineVars
  /\ UNCHANGED <<apiVars, windowVars>>

\* _process_alert: rule.last_triggered = datetime.now().isoformat()
StampRule(t) ==
  /\ pc[t] = "stamp"
  /\ last_triggered' = [last_triggered EXCEPT ![frame[t].ri] = now]
  /\ Advance(t)
  /\ UNCHANGED <<now, notification_history, active_alerts>>
  /\ UNCHANGED engineVars
  /\ UNCHANGED <<apiVars, windowVars>>

\* the wall clock moves on
Tick ==
  /\ now < MaxTime * MinutesPerTick
  /\ now' = now + MinutesPerTick
  /\ UNCHANGED <<last_triggered, notification_history, active_alerts, pc, frame>>
  /\ UNCHANGED engineVars
  /\ UNCHANGED <<apiVars, windowVars>>

\* The asyncio endpoint runs each process_risk_analysis call to completion
\* before the next one starts: one worker, calls one after the other.
MainThread == "w1"

Next ==
  \/ \E rs \in RiskScoreInputs, e \in ExpenseInputs : ProcessRiskAnalysis(MainThread, rs, e)
  \/ CheckRule(MainThread)
  \/ \E ok \in BOOLEAN : SendChannel(MainThread, ok)
  \/ StampRule(MainThread)
  \/ Tick

Spec == Init /\ [][Next]_vars

\* Calls made from several worker threads interleave at every step.
ThreadRiskInputs == { [overall_realtime_risk |-> 7000] }
ThreadExpenseInputs == [user_id : Users, group_id : Groups, amount : {100 * MONEY}]

NextThreads ==
  \/ \E t \in Threads, rs \in ThreadRiskInputs, e \in ThreadExpenseInputs :
        ProcessRiskAnalysis(t, rs, e)
  \/ \E t \in Threads : CheckRule(t)
  \/ \E t \in Threads, ok \in BOOLEAN : SendChannel(t, ok)
  \/ \E t \in Threads : StampRule(t)
  \/ Tick

SpecThreads == Init /\ [][NextThreads]_vars

\* ---- BehavioralAnalyzer and the velocity window, called from worker threads -
MaxCalls == 2
MaxRequests == 2

UpdateInputs ==
  [user_id : Users, group_id : Groups, amount : {100 * MONEY, 300 * MONEY},
   category : {"food"}, location : {"unknown"}, description : {""},
   payment_method : {"unknown"}]

Submitted(u) == IF u \in DOMAIN submitted THEN submitted[u] ELSE <<>>

TotalSubmitted ==
                  Cardinality({<<u, i>> \in (DOMAIN submitted) \X (1..MaxCalls + 1) :
                                 i <= Len(submitted[u])})

\* analyze_expense: the two membership tests of "get or create"
BeginAnalyze(t, e, is_fraud) ==
  /\ pc[t] = "idle"
  /\ TotalSubmitted < MaxCalls
  /\ pc' = [pc EXCEPT ![t] = "ensure"]
  /\ frame' = [frame EXCEPT ![t] =
       [IdleFrame EXCEPT !.expense = e, !.is_fraud = is_fraud,
          !.tmp = <<e.user_id \notin DOMAIN user_profiles,
                    e.group_id \notin DOMAIN group_profiles>>]]
  /\ submitted' = Put(submitted, e.user_id, Append(Submitted(e.user_id), <<now, e.amount>>))
  /\ UNCHANGED <<now, user_profiles, group_profiles, user_velocities>>
  /\ UNCHANGED notifyVars
  /\ UNCHANGED <<apiVars, windowVars>>

\* analyze_expense: the profiles found missing are created
EnsureProfiles(t) ==
  /\ pc[t] = "ensure"
  /\ LET e == frame[t].expense IN
     /\ user_profiles' = IF frame[t].tmp[1] THEN Put(user_profiles, e.user_id, NewUserProfile)
                                            ELSE user_profiles
     /\ group_profiles' = IF frame[t].tmp[2] THEN Put(group_profiles, e.group_id, NewGroupProfile)
                                             ELSE group_profiles
  /\ pc' = [pc EXCEPT ![t] = "u_read"]
  /\ UNCHANGED <<now, frame, user_velocities, submitted>>
  /\ UNCHANGED notifyVars
  /\ UNCHANGED <<apiVars, windowVars>>

\* update_profiles: profile.total_expenses += 1, the load
ReadCount(t) ==
  /\ pc[t] = "u_read"
  /\ frame' = [frame EXCEPT ![t].tmp = user_profiles[frame[t].expense.user_id].total_expenses]
  /\ pc' = [pc EXCEPT ![t] = "u_incr"]
  /\ UNCHANGED <<now, engineVars>>
  /\ UNCHANGED notifyVars
  /\ UNCHANGED <<apiVars, windowVars>>

\* update_profiles: profile.total_expenses += 1, the store
WriteCount(t) ==
  /\ pc[t] = "u_incr"
  /\ user_profiles' = [user_profiles EXCEPT
        ![frame[t].expense.user_id].total_expenses = frame[t].tmp + 1]
  /\ pc' = [pc EXCEPT ![t] = "u_avg"]
  /\ UNCHANGED <<now, frame, group_profiles, user_velocities, submitted>>
  /\ UNCHANGED notifyVars
  /\ UNCHANGED <<apiVars, windowVars>>

\* update_profiles: the running mean
WriteAvg(t) ==
  /\ pc[t] = "u_avg"
  /\ LET u == frame[t].expense.user_id IN
     user_profiles' = [user_profiles EXCEPT ![u].avg_amount =
        NewAvgAmount(@, user_profiles[u].total_expenses, frame[t].expense.amount)]
  /\ pc' = [pc EXCEPT ![t] = "u_rest"]
  /\ UNCHANGED <<now, frame, group_profiles, user_velocities, submitted>>
  /\ UNCHANGED notifyVars
  /\ UNCHANGED <<apiVars, windowVars>>

\* update_profiles: histories, risk score and the group profile
UpdateRest(t) ==
  /\ pc[t] = "u_rest"
  /\ LET e == frame[t].expense IN
     /\ user_profiles' = [user_profiles EXCEPT ![e.user_id] =
                            UpdateUserRest(@, e, frame[t].is_fraud, now)]
     /\ group_profiles' = [group_profiles EXCEPT ![e.group_id] =
                            UpdateGroup(@, e, frame[t].is_fraud)]
  /\ pc' = [pc EXCEPT ![t] = "velocity"]
  /\ UNCHANGED <<now, frame, user_velocities, submitted>>
  /\ UNCHANGED notifyVars
  /\ UNCHANGED <<apiVars, windowVars>>

Window(u) == IF u \in DOMAIN user_velocities THEN user_velocities[u] ELSE <<>>

\* analyze_real_time_risk
AnalyzeRisk(t) ==
  /\ pc[t] = "velocity"
  /\ LET r == AnalyzeRealTimeRisk(user_velocities, group_activities, recent_events,
                                  frame[t].expense, now)
     IN /\ user_velocities' = r.user_velocities
        /\ group_activities' = r.group_activities
        /\ recent_events' = r.recent_events
  /\ pc' = [pc EXCEPT ![t] = "idle"]
  /\ frame' = [frame EXCEPT ![t] = IdleFrame]
  /\ UNCHANGED <<now, user_profiles, group_profiles, submitted>>
  /\ UNCHANGED notifyVars
  /\ UNCHANGED apiVars

NextProfileThreads ==
  \/ \E t \in Threads, e \in UpdateInputs, f \in BOOLEAN : BeginAnalyze(t, e, f)
  \/ \E t \in Threads : EnsureProfiles(t)
  \/ \E t \in Threads : ReadCount(t)
  \/ \E t \in Threads : WriteCount(t)
  \/ \E t \in Threads : WriteAvg(t)
  \/ \E t \in Threads : UpdateRest(t)
  \/ \E t \in Threads : AnalyzeRisk(t)
  \/ Tick

SpecProfileThreads == Init /\ [][NextProfileThreads]_vars

\* ---- POST /predict -----------------------------------------------------------
\* what the environment can hold when an EnsembleModel is constructed
WeightInputs ==
  {<<(7 * SCALE) \div 10, (3 * SCALE) \div 10>>, <<(3 * SCALE) \div 10, (7 * SCALE) \div 10>>,
   <<SCALE, SCALE>>, <<(15 * SCALE) \div 10, (3 * SCALE) \div 10>>}

ThresholdInputs == {(6 * SCALE) \div 10, (15 * SCALE) \div 10}

\* the model a constructed EnsembleModel is built around: a fitted one, one
\* whose is_fitted is False, or None
ModelInputs == {"fitted", "unfitted", "none"}

EnsembleInputs ==
  {NoEnsemble} \cup
  {[DefaultEnsemble EXCEPT !.ml_weight = w[1], !.rule_weight = w[2], !.ml_model = m] :
      w \in WeightInputs, m \in {"fitted", "none"}}
  \cup {[DefaultEnsemble EXCEPT !.ml_model = m] : m \in ModelInputs}
  \cup {[DefaultEnsemble EXCEPT !.suspicion_threshold = th] : th \in ThresholdInputs}

\* Dependencies._load_ensemble_model / set_ensemble_model
LoadEnsembleModel(ens) ==
  /\ ensemble' = ens
  /\ UNCHANGED model_cache
  /\ UNCHANGED <<now, pc, frame, request, response>>
  /\ UNCHANGED <<notifyVars, engineVars, windowVars>>

\* EnsembleModel.update_threshold: the only place where a configuration value
\* is checked against [0, 1]
UpdateThreshold(new_threshold) ==
  /\ ensemble.loaded
  /\ request' = [endpoint |-> "update_threshold", new_threshold |-> new_threshold]
  /\ IF 0 <= new_threshold /\ new_threshold <= SCALE
       THEN /\ ensemble' = [ensemble EXCEPT !.suspicion_threshold = new_threshold]
            /\ response' = [status |-> 200]
       ELSE /\ UNCHANGED ensemble
            /\ response' = [status |-> 500, raised |-> "ValueError"]
  /\ UNCHANGED <<now, pc, frame, model_cache>>
  /\ UNCHANGED <<notifyVars, engineVars, windowVars>>

\* what the anomaly model can do when called
MLInputs ==
  [predict_raises : {FALSE}, explain_raises : {FALSE},
   proba : {0, (6 * SCALE) \div 10, SCALE}]
  \cup {[predict_raises |-> TRUE, explain_raises |-> FALSE, proba |-> 0],
        [predict_raises |-> FALSE, explain_raises |-> TRUE, proba |-> (6 * SCALE) \div 10]}

Without(d, k) == [x \in DOMAIN d \ {k} |-> d[x]]

Participant(u, a) == [user_id |-> u, amount |-> a]

Afternoon == [iso |-> TRUE, hour |-> 14, ahead |-> 0, aware |-> FALSE]

\* the example body of the endpoint's documentation
ExampleBody ==
  [expense_id |-> "e1", group_id |-> "g1", payer_id |-> "u1",
   participants |-> <<Participant("u1", 2550), Participant("u2", 2550)>>,
   amount |-> 5100, currency |-> "USD", merchant |-> "Restaurant ABC",
   category |-> "food", timestamp |-> Afternoon]

\* amount 10000.00 at merchant "Cash Advance" at 3 o'clock at night
ScenarioB ==
  [ExampleBody EXCEPT !.amount = 10000 * MONEY,
                      !.participants = <<Participant("u1", 5000 * MONEY),
                                         Participant("u2", 5000 * MONEY)>>,
                      !.merchant = "Cash Advance",
                      !.timestamp = [Afternoon EXCEPT !.hour = 3]]

\* request bodies of POST /predict
PredictBodies ==
  { ExampleBody, ScenarioB, [ScenarioB EXCEPT !.category = "cash_advance"],
    [ExampleBody EXCEPT !.amount = 75 * MONEY],
    [ExampleBody EXCEPT !.amount = 75 * MONEY, !.category = "gambling"],
    [ExampleBody EXCEPT !.amount = 100 * MONEY,
                        !.participants = <<Participant("u1", 100 * MONEY)>>],
    [ExampleBody EXCEPT !.participants = <<Participant("u2", 2550), Participant("u2", 2550)>>],
    [ExampleBody EXCEPT !.participants = <<Participant("u2", 5100)>>],
    [ExampleBody EXCEPT !.amount = 100 * MONEY,
                        !.participants = <<Participant("u2", 100 * MONEY)>>],
    [ExampleBody EXCEPT !.timestamp = [Afternoon EXCEPT !.hour = 3, !.ahead = 120]],
    [ExampleBody EXCEPT !.timestamp = [Afternoon EXCEPT !.hour = 3, !.ahead = 120,
                                                        !.aware = TRUE]],
    [ExampleBody EXCEPT !.amount = 0],
    [ExampleBody EXCEPT !.amount = -5100],
    [ExampleBody EXCEPT !.participants = <<>>],
    [ExampleBody EXCEPT !.participants = <<Participant("u1", 0), Participant("u2", 5100)>>],
    [ExampleBody EXCEPT !.currency = "usd"],
    [ExampleBody EXCEPT !.timestamp = [Afternoon EXCEPT !.iso = FALSE]] }
  \cup {Without(ExampleBody, k) : k \in {"payer_id", "group_id", "participants", "amount"}}
  \cup {Without([ExampleBody EXCEPT !.participants = <<Participant("u1", 2550)>>], "amount")}

\* FraudDetectionRoutes.predict behind get_ensemble_model, verify_model_health
\* and the validation of the body
Predict(e, ml) ==
  /\ request' = [endpoint |-> "/predict", body |-> e, ml |-> ml, model |-> ensemble]
  /\ response' =
       IF ~ensemble.loaded THEN [status |-> 503]
       ELSE IF ensemble.ml_model = "unfitted" THEN [status |-> 503]
       ELSE IF ~ExpenseInValid(e) THEN [status |-> 422]
       ELSE LET r == PredictSingle(ensemble, e, SCALE, ml) IN
            IF r.anomaly_score < 0 \/ r.anomaly_score > SCALE
              THEN [status |-> 500]      \* PredictionResponse(anomaly_score=...) raises
              ELSE [status |-> 200, prediction |-> r, alert_scheduled |-> r.is_suspicious]
  /\ UNCHANGED <<now, pc, frame, ensemble, model_cache>>
  /\ UNCHANGED <<notifyVars, engineVars, windowVars>>

\* ---- POST /predict/advanced and POST /predict/simple -------------------------
\* main_enhanced._categorize_risk; `one` is the representation of 1.0
CategorizeRisk(x, one) ==
  IF x >= (8 * one) \div 10 THEN "Critical"
  ELSE IF x >= (6 * one) \div 10 THEN "High"
  ELSE IF x >= (4 * one) \div 10 THEN "Medium"
  ELSE IF x >= (2 * one) \div 10 THEN "Low"
  ELSE "Minimal"

\* round(x, 3) of x given in units of 1/one: the nearest multiple of 0.001,
\* in units of 1/SCALE
Round3(x, one) == ((x + one \div 2000) \div (one \div 1000)) * (SCALE \div 1000)

risky_categories == {"entertainment", "online", "gaming", "travel", "cash_advance"}
suspicious_locations == {"unknown", "international", "foreign", "atm"}

\* the hour simple_predict_core works with
CoreHour(d, t) ==
  IF "timestamp" \notin DOMAIN d THEN HourOf(t)
  ELSE IF d.timestamp.iso THEN d.timestamp.hour
  ELSE 12

\* simple_predict_core; rnd holds the two draws of random.uniform
SimplePredictCore(d, rnd, t) ==
  LET amount == Get(d, "amount", 0)
      category == Get(d, "category", "other")
      location == Get(d, "location", "Unknown")
      payment_method == Get(d, "payment_method", "unknown")
      hour == CoreHour(d, t)
      points ==
          (IF amount > 5000 * MONEY THEN (5 * SCALE) \div 10
           ELSE IF amount > 1000 * MONEY THEN (3 * SCALE) \div 10 ELSE 0)
        + (IF hour >= 22 \/ hour <= 5 THEN (25 * SCALE) \div 100 ELSE 0)
        + (IF Lower(category) \in risky_categories THEN (2 * SCALE) \div 10 ELSE 0)
        + (IF AnyIn(suspicious_locations, Lower(location)) THEN (25 * SCALE) \div 100 ELSE 0)
        + (IF Lower(payment_method) = "cash" THEN (15 * SCALE) \div 100 ELSE 0)
      fraud_probability == Max(0, Min(SCALE, points + rnd.jitter))
  IN [is_fraud |-> fraud_probability > SCALE \div 2,
      fraud_probability |-> Round3(fraud_probability, SCALE),
      risk_level |-> CategorizeRisk(fraud_probability, SCALE),
      confidence |-> rnd.confidence]

\* update_profiles on a profile that exists, as one step
UpdateUser(p, e, is_fraud, t) ==
  UpdateUserRest(
    [p EXCEPT !.total_expenses = @ + 1,
              !.avg_amount = NewAvgAmount(@, p.total_expenses + 1, Get(e, "amount", 0))],
    e, is_fraud, t)

RECURSIVE Decimals(_, _, _)
\* the first k decimals of a / c for 0 <= a < c, as an integer
Decimals(a, c, k) ==
  IF k = 0 THEN 0
  ELSE LET q == (a * 10) \div c IN
       q * (IF k = 4 THEN 1000 ELSE IF k = 3 THEN 100 ELSE IF k = 2 THEN 10 ELSE 1)
         + Decimals((a * 10) % c, c, k - 1)

\* a / c in units of 1/SCALE for 0 <= a and 0 < c
Quotient(a, c) == (a \div c) * SCALE + Decimals(a % c, c, 4)

\* min(1.0, abs(amount - avg) / avg / k) for the average avg = n/d, n # 0; a
\* negative average gives a negative deviation, which min() lets through
DeviationScore(amount, avg, k) ==
  LET diff == Abs(amount * avg[2] - avg[1]) IN
  IF avg[1] > 0
    THEN (IF diff >= k * avg[1] THEN SCALE ELSE Quotient(diff, k * avg[1]))
    ELSE -Quotient(diff, k * (-avg[1]))

\* _calculate_amount_deviation
CalculateAmountDeviation(profile, amount) ==
  IF profile.total_expenses < 3 THEN (3 * SCALE) \div 10
  ELSE IF profile.avg_amount[1] = 0 THEN (5 * SCALE) \div 10
  ELSE DeviationScore(amount, profile.avg_amount, 2)

\* _calculate_category_familiarity
CalculateCategoryFamiliarity(profile, category) ==
  IF profile.favorite_categories = <<>> THEN (2 * SCALE) \div 10
  ELSE IF InSeq(category, profile.favorite_categories) THEN (1 * SCALE) \div 10
  ELSE (6 * SCALE) \div 10

\* _calculate_time_consistency; a timestamp that does not parse raises inside
\* the try block
CalculateTimeConsistency(profile, e, t) ==
  IF "timestamp" \in DOMAIN e /\ ~e.timestamp.iso THEN (3 * SCALE) \div 10
  ELSE LET hour == IF "timestamp" \in DOMAIN e THEN e.timestamp.hour ELSE HourOf(t) IN
       IF profile.usual_times = <<>> THEN (2 * SCALE) \div 10
       ELSE IF \E i \in DOMAIN profile.usual_times :
                  Abs(hour - profile.usual_times[i]) <= 2
         THEN (1 * SCALE) \div 10
       ELSE (5 * SCALE) \div 10

\* _calculate_group_amount_deviation
CalculateGroupAmountDeviation(profile, amount) ==
  IF profile.avg_expense_amount[1] = 0 THEN (3 * SCALE) \div 10
  ELSE DeviationScore(amount, profile.avg_expense_amount, 3)

\* _calculate_new_user_risk
CalculateNewUserRisk(profile) ==
  IF profile.total_expenses < 5 THEN (4 * SCALE) \div 10
  ELSE IF profile.total_expenses < 20 THEN (2 * SCALE) \div 10
  ELSE (1 * SCALE) \div 10

\* _calculate_velocity_risk
CalculateVelocityRisk(profile) ==
  IF profile.total_expenses > 100 THEN (3 * SCALE) \div 10 ELSE (1 * SCALE) \div 10

\* floor division by seven of a sum that may be negative
Mean7(s) == IF s >= 0 THEN s \div 7 ELSE -((-s) \div 7)

\* analyze_expense on the profiles of the user and of the group
AnalyzeExpense(user_profile, group_profile, e, t) ==
  LET amount == Get(e, "amount", 0)
      category == Get(e, "category", "other")
      risk_scores ==
        [user_amount_deviation |-> CalculateAmountDeviation(user_profile, amount),
         user_category_familiarity |-> CalculateCategoryFamiliarity(user_profile, category),
         user_time_consistency |-> CalculateTimeConsistency(user_profile, e, t),
         group_trust_score |-> SCALE - group_profile.trust_score,
         group_amount_deviation |-> CalculateGroupAmountDeviation(group_profile, amount),
         new_user_risk |-> CalculateNewUserRisk(user_profile),
         velocity_risk |-> CalculateVelocityRisk(user_profile)]
  IN risk_scores @@ [behavioral_risk_score |->
          Mean7(risk_scores.user_amount_deviation + risk_scores.user_category_familiarity
                   + risk_scores.user_time_consistency + risk_scores.group_trust_score
                   + risk_scores.group_amount_deviation + risk_scores.new_user_risk
                   + risk_scores.velocity_risk)]

\* the profiles after analyze_expense has created the missing ones
WithUser(up, user_id) ==
  IF user_id \in DOMAIN up THEN up ELSE Put(up, user_id, NewUserProfile)

WithGroup(gp, group_id) ==
  IF group_id \in DOMAIN gp THEN gp ELSE Put(gp, group_id, NewGroupProfile)

\* the behavioural block with the two calls in the other order
BehavioralStep_update_first(up, gp, d, is_fraud, t) ==
  LET user_id == Get(d, "user_id", "unknown")
      group_id == Get(d, "group_id", "unknown")
      up1 == [WithUser(up, user_id) EXCEPT ![user_id] = UpdateUser(@, d, is_fraud, t)]
      gp1 == [WithGroup(gp, group_id) EXCEPT ![group_id] = UpdateGroup(@, d, is_fraud)]
  IN [behavioral_analysis |-> AnalyzeExpense(up1[user_id], gp1[group_id], d, t),
      user_profiles |-> up1,
      group_profiles |-> gp1]

\* advanced_predict_fraud, the behavioural block: analyze_expense, then
\* update_profiles with the flag of the base prediction
BehavioralStep(up, gp, d, is_fraud, t) ==
  LET user_id == Get(d, "user_id", "unknown")
      group_id == Get(d, "group_id", "unknown")
      up0 == WithUser(up, user_id)
      gp0 == WithGroup(gp, group_id)
  IN [behavioral_analysis |-> AnalyzeExpense(up0[user_id], gp0[group_id], d, t),
      user_profiles |-> [up0 EXCEPT ![user_id] = UpdateUser(@, d, is_fraud, t)],
      group_profiles |-> [gp0 EXCEPT ![group_id] = UpdateGroup(@, d, is_fraud)]]

\* draws of random.uniform(-0.05, 0.05) and random.uniform(0.75, 0.95)
RandomInputs ==
  { [jitter |-> -((5 * SCALE) \div 100), confidence |-> (75 * SCALE) \div 100],
    [jitter |-> (49 * SCALE) \div 1000, confidence |-> (8 * SCALE) \div 10],
    [jitter |-> (5 * SCALE) \div 100, confidence |-> (95 * SCALE) \div 100] }

\* request bodies of the dict endpoints
AdvancedBodies ==
  { [user_id |-> "u1", group_id |-> "g1", amount |-> 1501 * MONEY, category |-> "food",
     location |-> "home", payment_method |-> "card"],
    [user_id |-> "u1", group_id |-> "g1", amount |-> 10001 * MONEY,
     category |-> "cash_advance", location |-> "atm", payment_method |-> "cash"],
    [user_id |-> "u2", group_id |-> "g1", amount |-> 1501 * MONEY, category |-> "online",
     location |-> "atm", payment_method |-> "card"],
    [amount |-> -5 * MONEY],
    [user_id |-> "u2", group_id |-> "g1", amount |-> 0],
    [payer_id |-> "u2", group_id |-> "g1", amount |-> 51 * MONEY,
     participants |-> <<>>, location |-> "home",
     timestamp |-> [Afternoon EXCEPT !.hour = 3, !.aware = TRUE]] }

\* advanced_predict_fraud: the verdict and the stores it leaves behind, from
\* the state it is called in
AdvancedResult(body, rnd) ==
  LET d == IF "user_id" \in DOMAIN body THEN body
           ELSE Put(body, "user_id", Get(body, "payer_id", "unknown"))
      user_id == d.user_id
      group_id == Get(d, "group_id", "unknown")
      base_prediction == SimplePredictCore(d, rnd, now)
      \* analyze_expense, update_profiles
      beh == BehavioralStep(user_profiles, group_profiles, d, base_prediction.is_fraud, now)
      \* analyze_real_time_risk
      rt == AnalyzeRealTimeRisk(user_velocities, group_activities, recent_events, d, now)
      \* 0.4 * fraud_probability + 0.6 * overall_realtime_risk, in units of
      \* 1/(10 * SCALE); overall_realtime_risk is a sixth of rt.risk_total
      overall_risk == 4 * base_prediction.fraud_probability + rt.risk_total
      enhanced == Round3(overall_risk, 10 * SCALE)
  IN [response |->
        [status |-> 200,
         basic_prediction |-> base_prediction,
         behavioral_analysis |-> beh.behavioral_analysis,
         overall_realtime_risk |-> rt.risk_total,
         risk_level |-> rt.risk_level,
         enhanced_fraud_probability |-> enhanced,
         enhanced_risk_level |-> CategorizeRisk(overall_risk, 10 * SCALE),
         is_fraud |-> enhanced > SCALE \div 2],
      user_profiles |-> beh.user_profiles,
      group_profiles |-> beh.group_profiles,
      rt |-> rt,
      alerts |-> IF enhanced > (6 * SCALE) \div 10
                   THEN <<CreateAlert("overall_realtime_risk", enhanced,
                              [user_id |-> user_id, group_id |-> group_id,
                               amount |-> Get(d, "amount", 0)], now)>>
                   ELSE <<>>]

\* advanced_predict_fraud up to the call of process_risk_analysis, whose
\* rule loop runs in the steps CheckRule, SendChannel and StampRule
AdvancedPredict(body, rnd) ==
  /\ pc[MainThread] = "idle"
  /\ \E r \in {AdvancedResult(body, rnd)} :
     /\ request' = [endpoint |-> "/predict/advanced", body |-> body, rnd |-> rnd,
                    at |-> now, before |-> <<engineVars, windowVars, active_alerts>>]
     /\ response' = r.response
     /\ user_profiles' = r.user_profiles
     /\ group_profiles' = r.group_profiles
     /\ user_velocities' = r.rt.user_velocities
     /\ group_activities' = r.rt.group_activities
     /\ recent_events' = r.rt.recent_events
     /\ active_alerts' = StoreAlerts(active_alerts, r.alerts)
     /\ IF r.alerts = <<>>
          THEN UNCHANGED <<pc, frame>>
          ELSE /\ pc' = [pc EXCEPT ![MainThread] = "check"]
               /\ frame' = [frame EXCEPT ![MainThread] =
                    [IdleFrame EXCEPT !.alerts = r.alerts, !.ai = 1, !.ri = 1]]
  /\ UNCHANGED <<now, last_triggered, notification_history, submitted, ensemble, model_cache>>

\* simple_predict_fraud
SimplePredict(body, rnd) ==
  /\ pc[MainThread] = "idle"
  /\ request' = [endpoint |-> "/predict/simple", body |-> body, rnd |-> rnd, at |-> now,
                 before |-> <<engineVars, windowVars, active_alerts>>]
  /\ response' = [status |-> 200, basic_prediction |-> SimplePredictCore(body, rnd, now)]
  /\ UNCHANGED <<now, pc, frame, ensemble, model_cache>>
  /\ UNCHANGED <<notifyVars, engineVars, windowVars>>

NextEnsemble ==
  \/ \E ens \in EnsembleInputs : LoadEnsembleModel(ens)
  \/ \E th \in ThresholdInputs : UpdateThreshold(th)
  \/ \E e \in PredictBodies, ml \in MLInputs : Predict(e, ml)
  \/ \E body \in AdvancedBodies, rnd \in RandomInputs : SimplePredict(body, rnd)

SpecEnsemble == Init /\ [][NextEnsemble]_vars

\* a request to POST /predict/advanced while fewer than MaxRequests were made
ScoreRequest(body, rnd) ==
  Len(recent_events) < MaxRequests /\ AdvancedPredict(body, rnd)

NextScore ==
  \/ \E body \in AdvancedBodies, rnd \in RandomInputs : ScoreRequest(body, rnd)
  \/ CheckRule(MainThread)
  \/ \E ok \in BOOLEAN : SendChannel(MainThread, ok)
  \/ StampRule(MainThread)
  \/ Tick

SpecScore == Init /\ [][NextScore]_vars

\* ---- a user building up a history ---------------------------------------------
MaxProfileRequests == 4

\* everyday expenses of user u1 in group g1
ProfileBodies ==
  { [user_id |-> "u1", group_id |-> "g1", amount |-> 100 * MONEY, category |-> "food",
     location |-> "home", payment_method |-> "card"],
    [user_id |-> "u1", group_id |-> "g1", amount |-> 300 * MONEY, category |-> "food",
     location |-> "home", payment_method |-> "card"],
    [user_id |-> "u1", group_id |-> "g1", amount |-> 20 * MONEY, category |-> "travel",
     location |-> "home", payment_method |-> "card",
     timestamp |-> [Afternoon EXCEPT !.hour = 20]] }

\* a request to POST /predict/advanced while fewer than MaxProfileRequests
\* were made
ProfileRequest(body, rnd) ==
  Len(recent_events) < MaxProfileRequests /\ AdvancedPredict(body, rnd)

NextBehavior ==
  \E body \in ProfileBodies, rnd \in RandomInputs : ProfileRequest(body, rnd)

SpecBehavior == Init /\ [][NextBehavior]_vars

\* ---- the analyzer called directly, one call after the other ---------------------------
MaxUpdates == 22

\* a user who goes through six categories and eleven places
CategoryCycle == <<"food", "travel", "online", "rent", "fuel", "games">>
LocationCycle == <<"home", "office", "mall", "airport", "hotel", "cafe", "gym", "park",
                   "station", "harbour", "market">>

\* the expense u1 submits to g1 after k earlier updates; `dated` is whether
\* its timestamp parses.  The amount is 2^22 cents: the group's average
\* halves its way towards it and stays a fraction of small terms.
ExpenseAt(k, dated) ==
  [user_id |-> "u1", group_id |-> "g1", amount |-> 2^22,
   category |-> CategoryCycle[(k % Len(CategoryCycle)) + 1],
   location |-> LocationCycle[(k % Len(LocationCycle)) + 1],
   payment_method |-> "card",
   timestamp |-> [Afternoon EXCEPT !.iso = dated]]

\* number of updates made for u1 so far
UpdatesMade == IF "u1" \in DOMAIN user_profiles THEN user_profiles["u1"].total_expenses ELSE 0

\* the caller's count of update_profiles calls with is_fraud=True that found
\* the group's profile
FraudLog == Get(request, "fraud_log", <<>>)

\* analyze_expense: creates the missing profiles and scores the expense
AnalyzeExpenseCall(e) ==
  /\ \E up0 \in {WithUser(user_profiles, e.user_id)}, gp0 \in {WithGroup(group_profiles, e.group_id)} :
       /\ user_profiles' = up0
       /\ group_profiles' = gp0
       /\ response' = [status |-> 200,
                       behavioral_analysis |->
                         AnalyzeExpense(up0[e.user_id], gp0[e.group_id], e, now)]
  /\ request' = [endpoint |-> "analyze_expense", body |-> e, at |-> now,
                 fraud_log |-> FraudLog]
  /\ UNCHANGED <<now, pc, frame, ensemble, model_cache, user_velocities, submitted>>
  /\ UNCHANGED <<notifyVars, windowVars>>

\* update_profiles: the user part and the group part, each for a profile
\* that exists
UpdateProfilesCall(e, is_fraud) ==
  /\ UpdatesMade < MaxUpdates
  /\ user_profiles' =
       IF e.user_id \in DOMAIN user_profiles
         THEN [user_profiles EXCEPT ![e.user_id] = UpdateUser(@, e, is_fraud, now)]
         ELSE user_profiles
  /\ group_profiles' =
       IF e.group_id \in DOMAIN group_profiles
         THEN [group_profiles EXCEPT ![e.group_id] = UpdateGroup(@, e, is_fraud)]
         ELSE group_profiles
  /\ request' = [endpoint |-> "update_profiles", body |-> e, is_fraud |-> is_fraud,
                 at |-> now,
                 fraud_log |->
                   IF is_fraud /\ e.group_id \in DOMAIN group_profiles
                     THEN Put(FraudLog, e.group_id, Get(FraudLog, e.group_id, 0) + 1)
                     ELSE FraudLog]
  /\ response' = NoResponse
  /\ UNCHANGED <<now, pc, frame, ensemble, model_cache, user_velocities, submitted>>
  /\ UNCHANGED <<notifyVars, windowVars>>

NextProfiles ==
  \/ \E dated \in BOOLEAN : AnalyzeExpenseCall(ExpenseAt(UpdatesMade, dated))
  \/ \E dated, is_fraud \in BOOLEAN : UpdateProfilesCall(ExpenseAt(UpdatesMade, dated), is_fraud)

SpecProfiles == Init /\ [][NextProfiles]_vars

\* ---- one user's velocity window ------------------------------------------------
MaxVelocityEvents == 5
MaxMinutes == 70

\* the amounts submitted and the pauses between submissions, in minutes
VelocityAmounts == {100 * MONEY}
WaitMinutes == {5, 60}
VelocityUser == "u1"

\* one call of _analyze_velocity at the current time; the request remembers
\* the window the call found
AnalyzeVelocity(user_id, amount) ==
  /\ Len(Window(user_id)) < MaxVelocityEvents
  /\ \E w \in {VelocityWindow(Window(user_id), amount, now)} :
       /\ user_velocities' = Put(user_velocities, user_id, w)
       /\ response' = [status |-> 200, velocity |-> VelocityScore(w, now)]
  /\ request' = [endpoint |-> "_analyze_velocity", user_id |-> user_id,
                 amount |-> amount, at |-> now, before |-> Window(user_id)]
  /\ UNCHANGED <<now, pc, frame, ensemble, model_cache, user_profiles, group_profiles, submitted>>
  /\ UNCHANGED <<notifyVars, windowVars>>

\* time passing between two calls
Wait(m) ==
  /\ now + m <= MaxMinutes
  /\ now' = now + m
  /\ UNCHANGED <<pc, frame>>
  /\ UNCHANGED <<notifyVars, engineVars, apiVars, windowVars>>

NextVelocity ==
  \/ \E amount \in VelocityAmounts : AnalyzeVelocity(VelocityUser, amount)
  \/ \E m \in WaitMinutes : Wait(m)

SpecVelocity == Init /\ [][NextVelocity]_vars

\* ---- analyze_real_time_risk on its own -------------------------------------------
\* RealTimeRiskEngine.risk_thresholds
risk_thresholds ==
  [high_velocity |-> (8 * SCALE) \div 10, suspicious_pattern |-> (7 * SCALE) \div 10,
   anomaly_detection |-> (6 * SCALE) \div 10, group_coordination |-> (75 * SCALE) \div 100]

\* the keys of risk_scores in the order they are inserted
SignalOrder ==
  <<"velocity_risk", "pattern_risk", "coordination_risk", "anomaly_risk",
    "temporal_risk", "amount_suspicion", "overall_realtime_risk">>

\* self.risk_thresholds.get(risk_type, 0.6)
ThresholdOf(risk_type) ==
  IF risk_type \in DOMAIN risk_thresholds THEN risk_thresholds[risk_type]
  ELSE (6 * SCALE) \div 10

\* score >= threshold for an entry of risk_scores; the entry
\* overall_realtime_risk is the sixth of the sum `total`
MeetsThreshold(risk_scores, total, risk_type, threshold) ==
  IF risk_type = "overall_realtime_risk" THEN total >= 6 * threshold
  ELSE risk_scores[risk_type] >= threshold

RECURSIVE GenerateAlertsFrom(_, _, _, _)
\* _generate_alerts, from the i-th key of risk_scores on
GenerateAlertsFrom(risk_scores, total, e, i) ==
  IF i > Len(SignalOrder) THEN <<>>
  ELSE LET risk_type == SignalOrder[i] IN
       (IF MeetsThreshold(risk_scores, total, risk_type, ThresholdOf(risk_type))
          THEN <<[type |-> risk_type,
                  severity |-> IF MeetsThreshold(risk_scores, total, risk_type,
                                                 (8 * SCALE) \div 10)
                                 THEN "HIGH" ELSE "MEDIUM",
                  expense_amount |-> Get(e, "amount", 0),
                  user_id |-> Get(e, "user_id", "unknown")]>>
          ELSE <<>>)
       \o GenerateAlertsFrom(risk_scores, total, e, i + 1)

\* _generate_alerts
GenerateAlerts(risk_scores, total, e) == GenerateAlertsFrom(risk_scores, total, e, 1)

\* one call of analyze_real_time_risk at the current time; the request
\* remembers the stores the call found
RealTimeAnalysis(e) ==
  /\ \E r \in {AnalyzeRealTimeRisk(user_velocities, group_activities, recent_events, e, now)} :
       /\ user_velocities' = r.user_velocities
       /\ group_activities' = r.group_activities
       /\ recent_events' = r.recent_events
       /\ response' = [status |-> 200, risk_scores |-> r.risk_scores,
                       risk_total |-> r.risk_total, risk_level |-> r.risk_level,
                       alerts |-> GenerateAlerts(r.risk_scores, r.risk_total, e)]
  /\ request' = [endpoint |-> "analyze_real_time_risk", body |-> e, at |-> now,
                 before |-> <<user_velocities, group_activities, recent_events>>]
  /\ UNCHANGED <<now, pc, frame, ensemble, model_cache, user_profiles, group_profiles, submitted>>
  /\ UNCHANGED notifyVars

\* ---- a group's members submitting together -----------------------------------------
MaxGroupEvents == 4
MaxGroupMinutes == 8

\* expenses of 500 by three members of g1 and an unrelated one
CoordinationBodies ==
  { [user_id |-> "u1", group_id |-> "g1", amount |-> 500 * MONEY, category |-> "food"],
    [user_id |-> "u2", group_id |-> "g1", amount |-> 500 * MONEY, category |-> "food"],
    [user_id |-> "u3", group_id |-> "g1", amount |-> 500 * MONEY, category |-> "travel"],
    [user_id |-> "u1", group_id |-> "g1", amount |-> 120 * MONEY, category |-> "other"] }

GroupWaits == {2, 6}

\* a member of the group submits an expense
GroupSubmit(e) ==
  Len(recent_events) < MaxGroupEvents /\ RealTimeAnalysis(e)

\* time passing between two submissions
GroupPause(m) ==
  now + m <= MaxGroupMinutes /\ Wait(m)

NextCoordination ==
  \/ \E e \in CoordinationBodies : GroupSubmit(e)
  \/ \E m \in GroupWaits : GroupPause(m)

SpecCoordination == Init /\ [][NextCoordination]_vars

\* ---- one user flooding a group ------------------------------------------------------
MaxFlood == 202
MaxEarly == 1

\* the flood of u1 in g1, and one expense of a bystander in another group
FloodBody == [user_id |-> "u1", group_id |-> "g1", amount |-> 120 * MONEY, category |-> "food"]
BystanderBody == [user_id |-> "u2", group_id |-> "g2", amount |-> 80 * MONEY, category |-> "food"]
FloodPauses == {60, 61}

\* u1 submits once more
FloodSubmit ==
  Len(recent_events) < MaxFlood /\ RealTimeAnalysis(FloodBody)

\* the bystander submits before the flood
BystanderSubmit ==
  Len(recent_events) < MaxEarly /\ RealTimeAnalysis(BystanderBody)

NextWindows ==
  \/ FloodSubmit
  \/ BystanderSubmit
  \/ \E m \in FloodPauses : Wait(m)

SpecWindows == Init /\ [][NextWindows]_vars

\* ---- the life of an alert ------------------------------------------------------------
\* an id no alert was stored under
UnknownId == <<"velocity_risk", NoneT, "nobody">>

\* risk analyses that raise one HIGH alert, two alerts or none, for expenses
\* of two users submitted within one second
AlertRiskInputs ==
  { [overall_realtime_risk |-> 7000], [overall_realtime_risk |-> 5000],
    [velocity_risk |-> 9000, overall_realtime_risk |-> 7000] }
AlertExpenseInputs == [user_id : Users, group_id : Groups, amount : {100 * MONEY}]

\* acknowledge_alert
AcknowledgeAlert(alert_id) ==
  /\ pc[MainThread] = "idle"
  /\ request' = [endpoint |-> "acknowledge_alert", alert_id |-> alert_id,
                 before |-> active_alerts]
  /\ IF alert_id \in DOMAIN active_alerts
       THEN /\ active_alerts' = [active_alerts EXCEPT ![alert_id].acknowledged = TRUE]
            /\ response' = [status |-> 200, result |-> TRUE]
       ELSE /\ UNCHANGED active_alerts
            /\ response' = [status |-> 200, result |-> FALSE]
  /\ UNCHANGED <<now, pc, frame, ensemble, model_cache, last_triggered, notification_history>>
  /\ UNCHANGED <<engineVars, windowVars>>

\* resolve_alert without the acknowledgement
ResolveAlert_only(alert_id) ==
  /\ pc[MainThread] = "idle"
  /\ request' = [endpoint |-> "resolve_alert", alert_id |-> alert_id,
                 before |-> active_alerts]
  /\ IF alert_id \in DOMAIN active_alerts
       THEN /\ active_alerts' = [active_alerts EXCEPT ![alert_id].resolved = TRUE]
            /\ response' = [status |-> 200, result |-> TRUE]
       ELSE /\ UNCHANGED active_alerts
            /\ response' = [status |-> 200, result |-> FALSE]
  /\ UNCHANGED <<now, pc, frame, ensemble, model_cache, last_triggered, notification_history>>
  /\ UNCHANGED <<engineVars, windowVars>>

\* resolve_alert
ResolveAlert(alert_id) ==
  /\ pc[MainThread] = "idle"
  /\ request' = [endpoint |-> "resolve_alert", alert_id |-> alert_id,
                 before |-> active_alerts]
  /\ IF alert_id \in DOMAIN active_alerts
       THEN /\ active_alerts' = [active_alerts EXCEPT ![alert_id].resolved = TRUE,
                                                      ![alert_id].acknowledged = TRUE]
            /\ response' = [status |-> 200, result |-> TRUE]
       ELSE /\ UNCHANGED active_alerts
            /\ response' = [status |-> 200, result |-> FALSE]
  /\ UNCHANGED <<now, pc, frame, ensemble, model_cache, last_triggered, notification_history>>
  /\ UNCHANGED <<engineVars, windowVars>>

\* get_active_alerts: the alerts returned (the order of the list, newest
\* first, is left out); severity_filter is a severity or "none"
GetActiveAlerts(severity_filter) ==
  /\ pc[MainThread] = "idle"
  /\ request' = [endpoint |-> "get_active_alerts", severity_filter |-> severity_filter,
                 before |-> active_alerts]
  /\ response' = [status |-> 200,
                  alerts |-> {active_alerts[id] : id \in
                     {k \in DOMAIN active_alerts :
                        /\ ~active_alerts[k].resolved
                        /\ severity_filter \in {"none", active_alerts[k].severity}}}]
  /\ UNCHANGED <<now, pc, frame, ensemble, model_cache>>
  /\ UNCHANGED <<notifyVars, engineVars, windowVars>>

NextAlerts ==
  \/ \E rs \in AlertRiskInputs, e \in AlertExpenseInputs :
        ProcessRiskAnalysis(MainThread, rs, e)
  \/ CheckRule(MainThread)
  \/ \E ok \in BOOLEAN : SendChannel(MainThread, ok)
  \/ StampRule(MainThread)
  \/ \E id \in DOMAIN active_alerts \cup {UnknownId} : AcknowledgeAlert(id)
  \/ \E id \in DOMAIN active_alerts \cup {UnknownId} : ResolveAlert(id)
  \/ \E f \in {"none", "HIGH", "CRITICAL"} : GetActiveAlerts(f)

SpecAlerts == Init /\ [][NextAlerts]_vars

\* ---- the riskiest events ---------------------------------------------------------------
MaxRiskEvents == 4

\* from the Wednesday noon of the start to Saturday 23:30
MinutesToSaturdayNight == 3 * 24 * 60 + 11 * 60 + 30

\* a large cash advance at an ATM, a round one, and two everyday expenses
RiskBodies ==
  { [user_id |-> "u1", group_id |-> "g1", amount |-> 10001 * MONEY,
     category |-> "cash_advance", location |-> "atm", description |-> "urgent"],
    [user_id |-> "u1", group_id |-> "g1", amount |-> 5000 * MONEY,
     category |-> "cash_advance", location |-> "atm", description |-> "urgent"],
    [user_id |-> "u1", group_id |-> "g1", amount |-> 12 * MONEY, category |-> "food",
     location |-> "home", description |-> ""],
    [user_id |-> "u1", group_id |-> "g1", amount |-> 0, category |-> "food",
     location |-> "home", description |-> ""] }

\* one more event is analysed
RiskSubmit(e) ==
  Len(recent_events) < MaxRiskEvents /\ RealTimeAnalysis(e)

\* the engine is left alone until Saturday night
UntilSaturdayNight ==
  /\ now = 0
  /\ now' = MinutesToSaturdayNight
  /\ UNCHANGED <<pc, frame>>
  /\ UNCHANGED <<notifyVars, engineVars, apiVars, windowVars>>

\* two minutes pass
ShortPause ==
  /\ now % 60 < 4
  /\ now' = now + 2
  /\ UNCHANGED <<pc, frame>>
  /\ UNCHANGED <<notifyVars, engineVars, apiVars, windowVars>>

NextRisk ==
  \/ \E e \in RiskBodies : RiskSubmit(e)
  \/ UntilSaturdayNight
  \/ ShortPause

SpecRisk == Init /\ [][NextRisk]_vars

\* ---- ModelCache ------------------------------------------------------------------------
MaxCacheSize == 3
CacheKeys == {"default", "v1", "v2", "v3", "v4"}
CacheModels == {"model_a", "model_b"}

\* list.remove(x): the first occurrence of x goes
ListRemove(q, x) ==
  LET i == CHOOSE i \in DOMAIN q : q[i] = x /\ \A j \in 1..(i - 1) : q[j] # x
  IN SubSeq(q, 1, i - 1) \o SubSeq(q, i + 1, Len(q))

\* x in list
InList(q, x) == \E i \in DOMAIN q : q[i] = x

\* history: the cached keys in the order of their last get or put, oldest first
Touched == Get(request, "touched", <<>>)

\* Touched after key is touched
TouchedWith(touched, key) ==
  (IF InList(touched, key) THEN ListRemove(touched, key) ELSE touched) \o <<key>>

\* ModelCache(max_size): a new, empty cache replaces the module's one
CacheNew(max_size) ==
  /\ model_cache' = NewModelCache(max_size)
  /\ request' = [endpoint |-> "ModelCache", max_size |-> max_size, before |-> model_cache,
                 touched_before |-> Touched, touched |-> <<>>]
  /\ response' = NoResponse
  /\ UNCHANGED <<now, pc, frame, ensemble>>
  /\ UNCHANGED <<notifyVars, engineVars, windowVars>>

\* get that leaves access_order as it is
CacheGet_no_refresh(key) ==
  /\ UNCHANGED model_cache
  /\ response' = [status |-> 200,
                  model |-> IF key \in DOMAIN model_cache.cache
                              THEN model_cache.cache[key] ELSE "None"]
  /\ request' = [endpoint |-> "ModelCache.get", key |-> key, before |-> model_cache,
                 touched_before |-> Touched,
                 touched |-> IF key \in DOMAIN model_cache.cache
                               THEN TouchedWith(Touched, key) ELSE Touched]
  /\ UNCHANGED <<now, pc, frame, ensemble>>
  /\ UNCHANGED <<notifyVars, engineVars, windowVars>>

\* ModelCache.get
CacheGet(key) ==
  /\ IF key \in DOMAIN model_cache.cache
       THEN /\ model_cache' =
                 [model_cache EXCEPT !.access_order = ListRemove(@, key) \o <<key>>]
            /\ response' = [status |-> 200, model |-> model_cache.cache[key]]
       ELSE /\ UNCHANGED model_cache
            /\ response' = [status |-> 200, model |-> "None"]
  /\ request' = [endpoint |-> "ModelCache.get", key |-> key, before |-> model_cache,
                 touched_before |-> Touched,
                 touched |-> IF key \in DOMAIN model_cache.cache
                               THEN TouchedWith(Touched, key) ELSE Touched]
  /\ UNCHANGED <<now, pc, frame, ensemble>>
  /\ UNCHANGED <<notifyVars, engineVars, windowVars>>

\* the cache after "Remove oldest if cache is full"
AfterEviction(c, key) ==
  IF Cardinality(DOMAIN c.cache) >= c.max_size /\ key \notin DOMAIN c.cache
    THEN LET oldest_key == Head(c.access_order)
         IN [c EXCEPT !.access_order = Tail(@), !.cache = Without(@, oldest_key)]
    ELSE c

\* ModelCache.put; with an empty access_order and a full cache pop(0) raises
CachePut(key, model) ==
  /\ ~(Cardinality(DOMAIN model_cache.cache) >= model_cache.max_size
       /\ key \notin DOMAIN model_cache.cache /\ model_cache.access_order = <<>>)
  /\ \E c \in {AfterEviction(model_cache, key)} :
       /\ model_cache' =
            [c EXCEPT !.cache = Put(@, key, model),
                      !.access_order =
                        (IF InList(@, key) THEN ListRemove(@, key) ELSE @) \o <<key>>]
       /\ request' = [endpoint |-> "ModelCache.put", key |-> key, model |-> model,
                      before |-> model_cache, touched_before |-> Touched,
                      touched |-> TouchedWith(SelectSeq(Touched, LAMBDA k : k \in DOMAIN c.cache), key)]
  /\ response' = NoResponse
  /\ UNCHANGED <<now, pc, frame, ensemble>>
  /\ UNCHANGED <<notifyVars, engineVars, windowVars>>

\* ModelCache.clear
CacheClear ==
  /\ model_cache' = [model_cache EXCEPT !.cache = <<>>, !.access_order = <<>>]
  /\ request' = [endpoint |-> "ModelCache.clear", before |-> model_cache,
                 touched_before |-> Touched, touched |-> <<>>]
  /\ response' = NoResponse
  /\ UNCHANGED <<now, pc, frame, ensemble>>
  /\ UNCHANGED <<notifyVars, engineVars, windowVars>>

NextCache ==
  \/ \E max_size \in 1..MaxCacheSize : CacheNew(max_size)
  \/ \E key \in CacheKeys : CacheGet(key)
  \/ \E key \in CacheKeys, model \in CacheModels : CachePut(key, model)
  \/ CacheClear

SpecCache == Init /\ [][NextCache]_vars

\* ---- _process_alert on one rule ------------------------------------------------------
\* rules handed to _process_alert: the default ones, two of them disabled, and
\* two rules with two conditions
RuleInputs ==
  {DefaultRules[r] : r \in RuleIds}
  \cup {[DefaultRules[r] EXCEPT !.enabled = FALSE] : r \in {2, 3}}
  \cup {[name |-> "Large High Risk",
         conditions |-> <<<<"risk_score", (6 * SCALE) \div 10, (8 * SCALE) \div 10>>,
                          <<"expense_amount", 5000 * MONEY, -1>>>>,
         channels |-> <<"webhook">>, severity_threshold |-> "HIGH",
         cooldown_minutes |-> 30, enabled |-> TRUE],
        [name |-> "Small Velocity",
         conditions |-> <<<<"alert_type", "velocity_risk">>,
                          <<"expense_amount", 0, 1000 * MONEY>>>>,
         channels |-> <<"in_app">>, severity_threshold |-> "LOW",
         cooldown_minutes |-> 30, enabled |-> TRUE]}

\* alerts as _create_alert makes them
AlertInputs ==
  {CreateAlert(ty, score, [user_id |-> "u1", group_id |-> "g1", amount |-> a], now) :
     ty \in {"velocity_risk", "coordination_risk", "overall_realtime_risk"},
     score \in {(3 * SCALE) \div 10, (5 * SCALE) \div 10, (6 * SCALE) \div 10,
                (7 * SCALE) \div 10, (8 * SCALE) \div 10, (9 * SCALE) \div 10},
     a \in {100 * MONEY, 6000 * MONEY}}

\* the body of the loop of _process_alert for one rule whose last_triggered is
\* `last`: what the rule does with the alert
ProcessAlertRule(alert, rule, last) ==
  /\ request' = [endpoint |-> "_process_alert", alert |-> alert, rule |-> rule,
                 last_triggered |-> last, at |-> now]
  /\ response' = [status |-> 200,
                  decision |-> IF ~rule.enabled THEN "skipped"
                               ELSE IF ~MatchesRule(alert, rule) THEN "no_match"
                               ELSE IF ShouldNotify(rule, last, now) THEN "notify"
                               ELSE "cooldown"]
  /\ UNCHANGED <<now, pc, frame, ensemble, model_cache>>
  /\ UNCHANGED <<notifyVars, engineVars, windowVars>>

NextMatching ==
  \E alert \in AlertInputs, rule \in RuleInputs, last \in {NoneT, 0} :
     ProcessAlertRule(alert, rule, last)

SpecMatching == Init /\ [][NextMatching]_vars

\* ---- _analyze_amount_suspicion on its own ---------------------------------------
AmountProbes ==
  {0, 1, 50, 1 * MONEY, 1 * MONEY + 1, 99 * MONEY, 100 * MONEY, 101 * MONEY,
   948 * MONEY, 949 * MONEY, 999 * MONEY, 1000 * MONEY, 1001 * MONEY,
   4999 * MONEY, 5000 * MONEY, 5001 * MONEY, 9948 * MONEY, 9999 * MONEY,
   10000 * MONEY, 10001 * MONEY, 20000 * MONEY, 20001 * MONEY}

\* one call of _analyze_amount_suspicion; the request remembers the call
\* before it
AnalyzeAmount(amount) ==
  /\ request' = [endpoint |-> "_analyze_amount_suspicion", amount |-> amount,
                 previous |-> IF request.endpoint = "_analyze_amount_suspicion"
                                THEN <<request.amount, response.amount_suspicion>>
                                ELSE <<>>]
  /\ response' = [status |-> 200, amount_suspicion |-> AmountSuspicion(amount)]
  /\ UNCHANGED <<now, pc, frame, ensemble, model_cache>>
  /\ UNCHANGED <<notifyVars, engineVars, windowVars>>

NextAmount == \E amount \in AmountProbes : AnalyzeAmount(amount)

SpecAmount == Init /\ [][NextAmount]_vars

\* ---- NotificationManager and WebhookNotifier (api/notifier.py) -------------------
\* @retry(stop=stop_after_attempt(3), ...)
stop_after_attempt == 3

\* retry_if_exception_type((aiohttp.ClientError, asyncio.TimeoutError))
RetryTypes == {"ClientError", "TimeoutError"}

\* what one POST to a webhook URL can do: answer 200, answer another status,
\* time out, fail with an aiohttp.ClientError, fail with another exception
WebhookOutcomes == {"200", "500", "TimeoutError", "ClientError", "Exception"}

\* the body of _send_webhook: every exception of the POST is caught inside
\* the function and turned into the return value False, so nothing is raised
SendWebhookBody(outcome) ==
  [returned |-> outcome = "200", raised |-> "none"]

\* what the retry wrapper does with the result r of attempt number `attempt`
AfterAttempt(r, attempt) ==
  IF r.raised \in RetryTypes
    THEN IF attempt < stop_after_attempt THEN "retry" ELSE "RetryError"
  ELSE IF r.raised # "none" THEN "reraise"
  ELSE "return"

\* the notifiers _setup_from_environment can install, in its order; the
\* webhook notifier comes with its number of URLs
MaxUrls == 2

NotifierConfigs ==
  { [notifiers |-> n, urls |-> u] :
      n \in { <<>>, <<"webhook">>, <<"kafka">>, <<"email">>, <<"webhook", "kafka">>,
              <<"webhook", "email">>, <<"kafka", "email">>, <<"webhook", "kafka", "email">> },
      u \in 1..MaxUrls }

\* send_alert has gone through all its notifiers
AlertDone == request.endpoint = "send_alert" => request.ni > Len(request.notifiers)

\* results[notifier.get_notification_type()] = success, then the next notifier
NextNotifier(success, log, url_results) ==
  /\ request' = [request EXCEPT !.ni = @ + 1, !.ui = 1, !.attempt = 1,
                                !.log = log, !.url_results = url_results]
  /\ response' = [response EXCEPT !.results = Put(@, request.notifiers[request.ni], success)]

\* NotificationManager.send_alert, up to its loop over the notifiers
SendAlert(cfg) ==
  /\ AlertDone
  /\ request' = [endpoint |-> "send_alert", notifiers |-> cfg.notifiers, urls |-> cfg.urls,
                 ni |-> 1, ui |-> 1, attempt |-> 1, log |-> <<>>, url_results |-> <<>>]
  /\ response' = [status |-> 200, results |-> <<>>]
  /\ UNCHANGED <<now, pc, frame, ensemble, model_cache>>
  /\ UNCHANGED <<notifyVars, engineVars, windowVars>>

\* WebhookNotifier.send_notification: one attempt of _send_webhook for the
\* URL at hand.  asyncio.gather runs the URLs' tasks concurrently; they share
\* no state, so they are taken one URL after the other.
WebhookAttempt(outcome) ==
  /\ request.endpoint = "send_alert"
  /\ ~AlertDone
  /\ request.notifiers[request.ni] = "webhook"
  /\ LET r == SendWebhookBody(outcome)
         next == AfterAttempt(r, request.attempt)
         log == Append(request.log, [url |-> request.ui, attempt |-> request.attempt,
                                     outcome |-> outcome])
         \* gather(return_exceptions=True): an exception becomes the task's result
         result == IF next = "return" THEN r.returned ELSE FALSE
         url_results == Append(request.url_results, result)
     IN IF next = "retry"
          THEN /\ request' = [request EXCEPT !.attempt = @ + 1, !.log = log]
               /\ UNCHANGED response
        ELSE IF request.ui < request.urls
          THEN /\ request' = [request EXCEPT !.ui = @ + 1, !.attempt = 1, !.log = log,
                                             !.url_results = url_results]
               /\ UNCHANGED response
        ELSE \* success_count > 0
             NextNotifier(\E i \in DOMAIN url_results : url_results[i], log, url_results)
  /\ UNCHANGED <<now, pc, frame, ensemble, model_cache>>
  /\ UNCHANGED <<notifyVars, engineVars, windowVars>>

\* KafkaNotifier.send_notification and EmailNotifier.send_notification are
\* stubs that return False
StubNotification ==
  /\ request.endpoint = "send_alert"
  /\ ~AlertDone
  /\ request.notifiers[request.ni] \in {"kafka", "email"}
  /\ NextNotifier(FALSE, request.log, request.url_results)
  /\ UNCHANGED <<now, pc, frame, ensemble, model_cache>>
  /\ UNCHANGED <<notifyVars, engineVars, windowVars>>

NextNotify ==
  \/ \E cfg \in NotifierConfigs : SendAlert(cfg)
  \/ \E outcome \in WebhookOutcomes : WebhookAttempt(outcome)
  \/ StubNotification

SpecNotify == Init /\ [][NextNotify]_vars

\* ---- claims about the cooldown --------------------------------------------
RuleOfName(name) == CHOOSE r \in RuleIds : DefaultRules[r].name = name

CooldownOver(r, last, t) ==
  t - last > DefaultRules[r].cooldown_minutes

\* a worker decides at this step that rule frame[t].ri fires
Fires(t) == pc[t] = "check" /\ pc'[t] = "send"

\* the alert under the worker's hand qualifies for the rule it is looking at
Qualifies(t) ==
  /\ pc[t] = "check"
  /\ DefaultRules[frame[t].ri].enabled
  /\ MatchesRule(frame[t].alerts[frame[t].ai], DefaultRules[frame[t].ri])

\* a rule that fired before fires again only once the cooldown is over
C1_NoFireInCooldown ==
  \A t \in Threads : Fires(t) =>
     \/ last_triggered[frame[t].ri] = NoneT
     \/ CooldownOver(frame[t].ri, last_triggered[frame[t].ri], now)

\* a qualifying alert checked after the cooldown fires the rule
C1_FiresAfterCooldown ==
  \A t \in Threads :
     (/\ Qualifies(t)
      /\ pc'[t] # "check" \/ frame'[t] # frame[t]
      /\ last_triggered[frame[t].ri] # NoneT
      /\ CooldownOver(frame[t].ri, last_triggered[frame[t].ri], now))
     => (Fires(t) /\ frame'[t].checked_at = now)

\* C1 (as amended): once a rule has fired and last_triggered = T was
\* written, no qualifying alert checked at a time t with t - T <= cooldown
\* fires the rule; the first qualifying alert checked at t with
\* t - T > cooldown fires it, and the firing replaces T - the value the check
\* read - by the clock reading taken after the channel sends, which is t or
\* later.
C1_Cooldown ==
  [][ /\ C1_NoFireInCooldown
      /\ C1_FiresAfterCooldown
      /\ \A t \in Threads : pc[t] = "stamp" /\ pc'[t] # "stamp" =>
            LET r == frame[t].ri IN
            /\ last_triggered'[r] = now
            /\ last_triggered'[r] >= frame[t].checked_at
            /\ \/ last_triggered[r] = NoneT
               \/ CooldownOver(r, last_triggered[r], frame[t].checked_at) ]_vars

\* C1 as stated: the firing moves last_triggered to t, the time at which
\* the alert was checked against the cooldown.
C1_AsStated ==
  [][ /\ C1_NoFireInCooldown
      /\ C1_FiresAfterCooldown
      /\ \A t \in Threads : pc[t] = "stamp" /\ pc'[t] # "stamp" =>
            last_triggered'[frame[t].ri] = frame[t].checked_at ]_vars

\* a rule has fired, stayed silent for an alert during its cooldown and
\* fired again after it
C1_Witness ==
  \E i, j \in DOMAIN notification_history :
    /\ i < j
    /\ notification_history[i].rule = notification_history[j].rule
    /\ notification_history[i].channel = notification_history[j].channel
    /\ LET r == RuleOfName(notification_history[i].rule) IN
       /\ CooldownOver(r, notification_history[i].timestamp,
                          notification_history[j].timestamp)
       /\ last_triggered[r] >= notification_history[j].timestamp
    /\ Cardinality(DOMAIN active_alerts) >= 2
    /\ pc[MainThread] = "idle"

\* C2: two alerts that qualify for the same rule and are processed
\* concurrently are dispatched at most once per cooldown period: any two
\* sends of one rule over one channel lie more than the cooldown apart.
C2_NoDuplicateDispatch ==
  \A i, j \in DOMAIN notification_history :
    (/\ i < j
     /\ notification_history[i].rule = notification_history[j].rule
     /\ notification_history[i].channel = notification_history[j].channel)
    => CooldownOver(RuleOfName(notification_history[i].rule),
                    notification_history[i].timestamp,
                    notification_history[j].timestamp)


\* ---- claims about concurrent updates of one entity ---------------------------
Quiescent == \A t \in Threads : pc[t] = "idle"

\* C3: once every concurrent scoring/update operation for a user has
\* completed, total_expenses has grown by one per operation, avg_amount is
\* the mean of all their amounts and every event is in the user's velocity
\* window (none of them is old enough to have been evicted).
C3_NoLostUpdate ==
  Quiescent =>
    \A u \in DOMAIN submitted :
      LET ops == submitted[u]
          amounts == [i \in DOMAIN ops |-> ops[i][2]]
      IN (now - ops[1][1] <= monitoring_window_minutes) =>
           /\ user_profiles[u].total_expenses = Len(ops)
           /\ user_profiles[u].avg_amount = Rat(SumSeq(amounts), Len(ops))
           /\ Len(Window(u)) = Len(ops)
           /\ SumSeq([i \in DOMAIN Window(u) |-> Window(u)[i][2]]) = SumSeq(amounts)

\* ---- claims about the ensemble verdict -------------------------------------------
\* every field of the body is valid on its own (the cross-field check of the
\* participants against the amount left aside)
WellFormed(e) == \A i \in DOMAIN ExpenseInFields : FieldValid(e, ExpenseInFields[i], {})

\* POST /predict was served last, by a loaded model, for a well-formed body
Scored == request.endpoint = "/predict" /\ request.model.loaded /\ WellFormed(request.body)

\* C4: when the anomaly model's predict_proba or explain call raises, the
\* verdict is still produced with ml_score = 0, with exactly the violations
\* the rules found, with combined score rule_weight x rule_score, and it is
\* marked as degraded.
C4_ProviderFailureDegrades ==
  (/\ Scored
   /\ request.model.ml_model = "fitted"
   /\ request.ml.predict_raises \/ request.ml.explain_raises)
  => /\ response.status = 200
     /\ LET p == response.prediction
            found == CheckRules(request.body, SCALE)
        IN /\ p.ml_score = 0
           /\ p.rule_violations = found
           /\ p.rule_score = CalculateRuleScore(found)
           /\ p.anomaly_score = (request.model.rule_weight * p.rule_score) \div SCALE
           /\ "degraded" \in DOMAIN p
           /\ p.degraded

\* C5: an event whose participant amounts differ from its amount by more
\* than 0.01 is scored, and its verdict contains an amount_mismatch
\* violation with confidence >= 0.9.
C5_MismatchIsViolation ==
  (Scored /\ AmountsDiffer(request.body.participants, request.body.amount))
  => /\ response.status = 200
     /\ \E i \in DOMAIN response.prediction.rule_violations :
          /\ response.prediction.rule_violations[i].rule_name = "amount_mismatch"
          /\ response.prediction.rule_violations[i].confidence >= (9 * SCALE) \div 10

\* C7: for every valid event and any weights the ensemble was constructed
\* with, the combined score lies in [0,1], and so does the enhanced
\* probability of the advanced endpoint.
C7_ScoreInUnitInterval ==
  /\ Scored =>
       LET r == PredictSingle(request.model, request.body, SCALE, request.ml)
       IN 0 <= r.anomaly_score /\ r.anomaly_score <= SCALE
  /\ request.endpoint = "/predict/advanced" =>
       /\ 0 <= response.enhanced_fraud_probability
       /\ response.enhanced_fraud_probability <= SCALE

\* ---- claims about the advanced endpoint -------------------------------------------
\* a missing user/payer id or group id, an amount <= 0 or no participants
Unusable(body) ==
  \/ "user_id" \notin DOMAIN body /\ "payer_id" \notin DOMAIN body
  \/ "group_id" \notin DOMAIN body
  \/ "amount" \notin DOMAIN body
  \/ body.amount <= 0
  \/ "participants" \notin DOMAIN body
  \/ body.participants = <<>>

\* C6: a structurally unusable event is rejected to the caller, and the
\* rejection leaves the sliding windows, the behavioural profiles and the
\* alert store as they were.
C6_UnusableRejected ==
  (request.endpoint = "/predict/advanced" /\ Unusable(request.body))
  => /\ response.status \in {400, 422}
     /\ <<engineVars, windowVars, active_alerts>> = request.before

\* the documented level of a score x given in units of 1/one
DocumentedLevel(x, one) ==
  IF 10 * x >= 8 * one THEN "critical"
  ELSE IF 10 * x >= 6 * one THEN "high"
  ELSE IF 10 * x >= 4 * one THEN "medium"
  ELSE IF 10 * x >= 2 * one THEN "low"
  ELSE "minimal"

LevelName ==
  [CRITICAL |-> "critical", HIGH |-> "high", MEDIUM |-> "medium", LOW |-> "low",
   MINIMAL |-> "minimal", Critical |-> "critical", High |-> "high",
   Medium |-> "medium", Low |-> "low", Minimal |-> "minimal"]

\* C8: the risk level of a verdict is the level the documented thresholds
\* give to the score of that verdict: risk_level for overall_realtime_risk
\* and enhanced_risk_level for the reported enhanced_fraud_probability.
C8_LevelMatchesReportedScore ==
  request.endpoint = "/predict/advanced" =>
    /\ LevelName[response.risk_level]
         = DocumentedLevel(response.overall_realtime_risk, 6 * SCALE)
    /\ LevelName[response.enhanced_risk_level]
         = DocumentedLevel(response.enhanced_fraud_probability, SCALE)

\* C9: the verdict of a Score call is determined by the event, the
\* window/profile state and the clock reading: whatever the random draws
\* of the call, the verdict is the same.
C9_Deterministic ==
  [][ (request'.endpoint = "/predict/advanced" /\ request' # request)
        => \A rnd \in RandomInputs :
              AdvancedResult(request'.body, rnd).response = response' ]_vars

\* ---- claims about amount_suspicion -------------------------------------------------
\* none of the patterns of _analyze_amount_suspicion applies: not a multiple
\* of 100, not within 50 below a reporting threshold, above 1
Plain(amount) ==
  /\ amount > 1 * MONEY
  /\ ~(amount >= 100 * MONEY /\ amount % (100 * MONEY) = 0)
  /\ ~\E th \in suspicious_thresholds :
         (th - 50) * MONEY <= amount /\ amount <= th * MONEY

\* two calls of _analyze_amount_suspicion in a row, for a and then b
TwoAmounts ==
  /\ request.endpoint = "_analyze_amount_suspicion"
  /\ request.previous # <<>>

\* C10 (as amended): for two amounts a <= b to which none of the patterns
\* applies (neither a multiple of 100, nor within 50 below 999, 1999, 2999,
\* 4999 or 9999, nor at most 1), amount_suspicion(a) <= amount_suspicion(b);
\* an amount with a pattern scores 0.3 or 0.5 whatever its size.
C10_MonotoneOnPlainAmounts ==
  TwoAmounts =>
    /\ (/\ request.previous[1] <= request.amount
        /\ Plain(request.previous[1])
        /\ Plain(request.amount))
       => request.previous[2] <= response.amount_suspicion
    /\ ~Plain(request.amount)
       => response.amount_suspicion \in {(3 * SCALE) \div 10, (5 * SCALE) \div 10}

\* C10 as stated: for any two amounts a <= b,
\* amount_suspicion(a) <= amount_suspicion(b).
C10_Monotone ==
  (TwoAmounts /\ request.previous[1] <= request.amount)
  => request.previous[2] <= response.amount_suspicion

\* a plain amount followed by a larger plain amount of a higher tier
C10_Witness ==
  /\ TwoAmounts
  /\ request.previous[1] < request.amount
  /\ Plain(request.previous[1])
  /\ Plain(request.amount)
  /\ request.previous[2] < response.amount_suspicion


\* ---- claims about the dispatch of notifications ---------------------------------
\* advanced_predict_fraud is still running: process_risk_analysis, called at
\* main_enhanced.py:212, has not come back and `return results` (line 232)
\* has not been reached
InScoringCall ==
  /\ request.endpoint = "/predict/advanced"
  /\ pc[MainThread] # "idle"

\* a channel send happens at this step (it leaves its entry in the history)
Sends == Len(notification_history') > Len(notification_history)

\* C11: every channel send triggered by an event's verdict starts only after
\* the verdict has been returned to the caller; no send happens inside the
\* scoring call.
C11_SendsAfterVerdictReturned ==
  [][ Sends => ~InScoringCall ]_vars

\* the attempts made for webhook URL u in the send_alert call at hand
AttemptsOf(u) ==
  LET idx == {i \in DOMAIN request.log : request.log[i].url = u}
  IN [k \in 1..Cardinality(idx) |->
        request.log[CHOOSE i \in idx : Cardinality({j \in idx : j <= i}) = k]]

\* the send to webhook URL u has been reported (its result is in the list
\* asyncio.gather returns)
Reported(u) ==
  /\ request.endpoint = "send_alert"
  /\ u \in DOMAIN request.url_results

\* C12: a channel send that fails with a transient error (client error or
\* timeout) is attempted again, up to 3 attempts in total, and is reported as
\* failed only after the 3rd failed attempt; a send that succeeds on attempt
\* k <= 3 is reported as successful and is not attempted again.
C12_BoundedRetry ==
  \A u \in 1..MaxUrls :
    Reported(u) =>
      LET a == AttemptsOf(u)
          last == a[Len(a)]
      IN /\ Len(a) <= stop_after_attempt
         /\ \A k \in 1..(Len(a) - 1) : a[k].outcome \in RetryTypes
         /\ (last.outcome \in RetryTypes) => Len(a) = stop_after_attempt
         /\ request.url_results[u] = (last.outcome = "200")

\* the history entries of the channels of rule r for alert a are the last n
\* entries of history h, one per channel, in the order of the channels
OnePerChannel(h, a, r) ==
  LET n == Len(r.channels) IN
  /\ Len(h) >= n
  /\ \A i \in 1..n :
        LET entry == h[Len(h) - n + i] IN
        /\ entry.channel = r.channels[i]
        /\ entry.alert_id = a.id
        /\ entry.rule = r.name
        /\ entry.status \in {"sent", "failed"}

\* worker t takes a step of its loop (the clock moving on is none)
Moves(t) ==
  <<pc'[t], frame'[t], notification_history'>> # <<pc[t], frame[t], notification_history>>

\* C13: when a rule fires with channels c1..cn, every channel is attempted
\* exactly once in order whether or not earlier channels failed, exactly one
\* notification-history entry (sent or failed) is appended per channel, and no
\* channel failure reaches the caller: the loop always goes on to the stamp
\* of the rule.
C13_ChannelIsolation ==
  [][ \A t \in Threads :
        (pc[t] = "send" /\ Moves(t)) =>
          LET f == frame[t]
              rule == DefaultRules[f.ri]
          IN /\ Len(notification_history') = Len(notification_history) + 1
             /\ notification_history'[Len(notification_history')].channel
                  = rule.channels[f.ci]
             /\ pc'[t] \in {"send", "stamp"}
             /\ pc'[t] = "send" => frame'[t].ci = f.ci + 1
             /\ pc'[t] = "stamp" =>
                  /\ f.ci = Len(rule.channels)
                  /\ OnePerChannel(notification_history', f.alerts[f.ai], rule) ]_vars

\* a rule with two channels has been through both: the first send failed,
\* the second was made all the same and succeeded
C13_Witness ==
  /\ pc[MainThread] = "stamp"
  /\ Len(DefaultRules[frame[MainThread].ri].channels) = 2
  /\ Len(notification_history) >= 2
  /\ notification_history[Len(notification_history) - 1].status = "failed"
  /\ notification_history[Len(notification_history)].status = "sent"
  /\ notification_history[Len(notification_history) - 1].alert_id
       = notification_history[Len(notification_history)].alert_id

InUnit(x) == 0 <= x /\ x <= SCALE

\* C17: constructing the scorer with ml_weight, rule_weight or
\* suspicion_threshold outside [0,1] fails, so no scorer holding an
\* out-of-range weight or threshold ever scores an event.
C17_NoOutOfRangeScorerScores ==
  (request.endpoint = "/predict" /\ response.status = 200)
  => /\ InUnit(request.model.ml_weight)
     /\ InUnit(request.model.rule_weight)
     /\ InUnit(request.model.suspicion_threshold)

\* ---- claims about the scenarios -------------------------------------------------
\* the verdict has a violation of this rule
HasViolation(prediction, rule_name) ==
  \E i \in DOMAIN prediction.rule_violations :
     prediction.rule_violations[i].rule_name = rule_name

\* the request is Scenario B and it was scored, the anomaly model answering
ScenarioBScored ==
  /\ request.endpoint = "/predict"
  /\ request.model.loaded
  /\ request.model.ml_model # "unfitted"
  /\ ~request.ml.predict_raises /\ ~request.ml.explain_raises
  /\ ExpenseInValid(request.body)
  /\ request.body.amount = 10000 * MONEY
  /\ request.body.merchant = "Cash Advance"
  /\ request.body.timestamp.hour = 3

\* C18: scoring an event with amount 10000.00 in a group whose historical
\* mean is 200, merchant "Cash Advance" and timestamp hour 3 yields an
\* excessive_amount violation of severity high and a merchant/category
\* violation, with overall_score >= 0.6 and is_suspicious = true.
C18_ScenarioB ==
  ScenarioBScored =>
    /\ response.status = 200
    /\ \E i \in DOMAIN response.prediction.rule_violations :
          /\ response.prediction.rule_violations[i].rule_name = "excessive_amount"
          /\ response.prediction.rule_violations[i].severity = "high"
    /\ \/ HasViolation(response.prediction, "blacklisted_merchant")
       \/ HasViolation(response.prediction, "suspicious_category")
    /\ response.prediction.anomaly_score >= (6 * SCALE) \div 10
    /\ response.prediction.is_suspicious

\* the request was accepted for scoring and its payer is not a participant
PayerAbsentScored ==
  /\ request.endpoint = "/predict"
  /\ request.model.loaded
  /\ request.model.ml_model # "unfitted"
  /\ ExpenseInValid(request.body)
  /\ \A i \in DOMAIN request.body.participants :
        request.body.participants[i].user_id # request.body.payer_id

\* C19: Scenario C: every event whose payer_id does not occur among its
\* participants yields a payer_not_participating violation of severity medium,
\* whatever the amount and whatever other rules trigger, and the expense is
\* flagged with a rule score > 0.
C19_ScenarioC ==
  PayerAbsentScored =>
    /\ response.status = 200
    /\ \E i \in DOMAIN response.prediction.rule_violations :
          /\ response.prediction.rule_violations[i].rule_name = "payer_not_participating"
          /\ response.prediction.rule_violations[i].severity = "medium"
    /\ response.prediction.rule_score > 0

\* ---- claims about the behavioural profiles ---------------------------------------
\* the last request went through advanced_predict_fraud
AdvancedScored == request.endpoint = "/predict/advanced"

\* the user the last request is about
RequestUser ==
  Get(request.body, "user_id", Get(request.body, "payer_id", "unknown"))

\* the user's profile when the last request came in
ProfileBefore == WithUser(request.before[1][1], RequestUser)[RequestUser]

\* C16: Score updates the behavioural profiles only after the verdict is
\* computed: update_profiles for an event happens after that event's real-time
\* window analysis and final combined score have been computed, and the
\* is_fraud flag it records is the one of the final verdict.
C16_ProfileRecordsFinalVerdict ==
  AdvancedScored =>
    user_profiles[RequestUser].risk_score =
      IF response.is_fraud THEN Min(SCALE, ProfileBefore.risk_score + SCALE \div 10)
                           ELSE Max(0, ProfileBefore.risk_score - SCALE \div 100)

\* the last request as advanced_predict_fraud completes it
RequestData ==
  IF "user_id" \in DOMAIN request.body THEN request.body
  ELSE Put(request.body, "user_id", RequestUser)

RequestGroup == Get(request.body, "group_id", "unknown")

\* the group's profile when the last request came in
GroupBefore == WithGroup(request.before[1][2], RequestGroup)[RequestGroup]

\* the sub-scores analyze_expense gives this request on these profiles
SubScores(user_profile, group_profile) ==
  LET a == AnalyzeExpense(user_profile, group_profile, RequestData, request.at)
  IN <<a.user_amount_deviation, a.user_category_familiarity,
       a.user_time_consistency, a.new_user_risk>>

\* the sub-scores the response reports
ReportedSubScores ==
  <<response.behavioral_analysis.user_amount_deviation,
    response.behavioral_analysis.user_category_familiarity,
    response.behavioral_analysis.user_time_consistency,
    response.behavioral_analysis.new_user_risk>>

\* C15: analyze-before-update ordering: for every scored event, analyze_expense
\* computes that event's sub-scores (amount deviation, category familiarity,
\* time consistency, new-user risk) from the profile state as it was before
\* update_profiles is applied for the same event, and update_profiles is
\* applied at most once per scored event.
C15_AnalyzeBeforeUpdate ==
  AdvancedScored =>
    /\ ReportedSubScores = SubScores(ProfileBefore, GroupBefore)
    /\ user_profiles[RequestUser].total_expenses = ProfileBefore.total_expenses + 1
    /\ Len(user_profiles[RequestUser].usual_times) <= Len(ProfileBefore.usual_times) + 1
    /\ \A u \in DOMAIN user_profiles \ {RequestUser} :
          u \in DOMAIN request.before[1][1] /\ user_profiles[u] = request.before[1][1][u]

\* an event of a user with a history whose amount deviation and category
\* familiarity would both have come out differently on the updated profile
C15_Witness ==
  /\ AdvancedScored
  /\ ProfileBefore.total_expenses >= 3
  /\ ReportedSubScores[1] # SubScores(user_profiles[RequestUser], GroupBefore)[1]
  /\ ReportedSubScores[2] # SubScores(user_profiles[RequestUser], GroupBefore)[2]
  /\ ReportedSubScores = SubScores(ProfileBefore, GroupBefore)

\* ---- claims about the velocity signal --------------------------------------------
\* the last call was _analyze_velocity
VelocityCalled == request.endpoint = "_analyze_velocity"

\* the window the last call scored: what it found plus its own entry
ScoredWindow == Append(request.before, <<request.at, request.amount>>)

\* the entries of the scored window the eviction left in place
KeptWindow == EvictOld(ScoredWindow, request.at)

\* the call scored at least the third expense of 100 within ten minutes
ThirdOfBurst ==
  /\ VelocityCalled
  /\ Len(KeptWindow) >= 3
  /\ \A i \in (Len(KeptWindow) - 2)..Len(KeptWindow) :
        /\ KeptWindow[i][2] = 100 * MONEY
        /\ KeptWindow[i][1] >= request.at - 10

\* C20 as stated: Scenario D: when the same user submits 4 expenses of 100 each
\* within 10 minutes, the velocity signal computed for the 3rd event (and for
\* the 4th) is >= 0.5.
C20_AsStated == ThirdOfBurst => response.velocity >= SCALE \div 2

\* the user's window holds nothing older than the ten minutes of the burst
NothingOlder == \A i \in DOMAIN KeptWindow : KeptWindow[i][1] >= request.at - 10

\* C20: when the same user submits 4 expenses of 100 each within 10 minutes and
\* has submitted no other expense in the 60 minutes before, the velocity signal
\* computed for the 3rd event (and for the 4th) is >= 0.5.
C20_BurstInQuietWindow ==
  (ThirdOfBurst /\ NothingOlder) => response.velocity >= SCALE \div 2

\* the fourth expense of a burst that took five minutes, after an older
\* expense has left the window
C20_Witness ==
  /\ ThirdOfBurst /\ NothingOlder
  /\ Len(KeptWindow) = 4
  /\ Len(ScoredWindow) > Len(KeptWindow)
  /\ KeptWindow[1][1] < request.at
  /\ response.velocity = (6 * SCALE) \div 10

\* ---- claims about the real-time signals ---------------------------------------------
\* the last call was analyze_real_time_risk
RealTimeCalled == request.endpoint = "analyze_real_time_risk"

\* the window of the request's group as the call left it
GroupWindowScored == group_activities[Get(request.body, "group_id", "unknown")]

\* the call scored the third of three expenses of 500 that three distinct users
\* of the group submitted within two minutes
ThirdOfThree ==
  /\ RealTimeCalled
  /\ Len(GroupWindowScored) >= 3
  /\ LET n == Len(GroupWindowScored) IN
     /\ \A i \in (n - 2)..n :
           /\ Get(GroupWindowScored[i][2], "amount", 0) = 500 * MONEY
           /\ GroupWindowScored[i][1] >= request.at - 2
     /\ Cardinality({Get(GroupWindowScored[i][2], "user_id", "unknown") : i \in (n - 2)..n}) = 3

\* C21 as stated: Scenario E: whenever 3 distinct users of the same group each
\* submit an identical 500 expense within 2 minutes, the coordination signal
\* computed for the third of these events is >= 0.6.
C21_AsStated ==
  ThirdOfThree => response.risk_scores.coordination_risk >= (6 * SCALE) \div 10

\* C21: whenever 3 distinct users of the same group each submit an identical
\* 500 expense within 2 minutes and the group's monitoring window holds no
\* other expense, the coordination signal computed for the third of these
\* events is >= 0.6.
C21_ThreeInQuietGroup ==
  (ThirdOfThree /\ Len(GroupWindowScored) = 3) =>
     response.risk_scores.coordination_risk >= (6 * SCALE) \div 10

\* three members, two categories, two minutes apart: the signal is 0.8
C21_Witness ==
  /\ ThirdOfThree /\ Len(GroupWindowScored) = 3
  /\ GroupWindowScored[1][1] < request.at
  /\ Cardinality({Get(GroupWindowScored[i][2], "category", "") : i \in 1..3}) = 2
  /\ response.risk_scores.coordination_risk = (8 * SCALE) \div 10

\* ---- claims about the rule score ---------------------------------------------------
\* the sequence q without its i-th element
RemoveAt(q, i) == SubSeq(q, 1, i - 1) \o SubSeq(q, i + 1, Len(q))

\* the last request got a verdict from predict_single's normal path
VerdictGiven ==
  /\ request.endpoint = "/predict"
  /\ response.status = 200
  /\ response.prediction.model_version # "error"

\* C22: multiple rule violations accumulate: adding a further triggered rule
\* violation to an expense's violations never lowers its rule score, so an
\* expense triggering several rules scores at least as high as the same expense
\* triggering any subset of them.
C22_ViolationsAccumulate ==
  VerdictGiven =>
    \A i \in DOMAIN response.prediction.rule_violations :
       response.prediction.rule_score >=
         CalculateRuleScore(RemoveAt(response.prediction.rule_violations, i))

\* the weights the spec gives the severities
StatedWeight == [low |-> 3, medium |-> 6, high |-> 9]

\* sum over the violations of weight x confidence, and of the weights, in tenths
WeightedConfidence(violations) ==
  SumSeq([i \in DOMAIN violations |->
            StatedWeight[violations[i].severity] * violations[i].confidence])

WeightTotal(violations) ==
  SumSeq([i \in DOMAIN violations |-> StatedWeight[violations[i].severity]])

C32_FutureFlagged ==
  (VerdictGiven /\ request.body.timestamp.ahead > 60) =>
     \E i \in DOMAIN response.prediction.rule_violations :
        response.prediction.rule_violations[i] =
          Violation("future_timestamp", "high", (9 * SCALE) \div 10)

\* the threshold the engine documents for each signal
DocumentedThreshold ==
  [velocity_risk |-> (8 * SCALE) \div 10, pattern_risk |-> (7 * SCALE) \div 10,
   anomaly_risk |-> (6 * SCALE) \div 10, coordination_risk |-> (75 * SCALE) \div 100,
   temporal_risk |-> (6 * SCALE) \div 10, amount_suspicion |-> (6 * SCALE) \div 10]

\* the alert candidates of the response that are about this signal
CandidatesFor(signal) ==
  {i \in DOMAIN response.alerts : response.alerts[i].type = signal}

\* C23: per-signal alert thresholds: analyze_real_time_risk emits an alert
\* candidate for a signal exactly when that signal's score meets its own
\* threshold - velocity 0.8, pattern 0.7, anomaly 0.6, coordination 0.75,
\* temporal and amount_suspicion 0.6 - and the candidate's severity is HIGH iff
\* its score >= 0.8, MEDIUM otherwise.
C23_PerSignalThresholds ==
  RealTimeCalled =>
    \A signal \in DOMAIN DocumentedThreshold :
       /\ (CandidatesFor(signal) # {}) <=>
            (response.risk_scores[signal] >= DocumentedThreshold[signal])
       /\ \A i \in CandidatesFor(signal) :
             response.alerts[i].severity =
               IF response.risk_scores[signal] >= (8 * SCALE) \div 10
                 THEN "HIGH" ELSE "MEDIUM"

\* ---- claims about rule matching ----------------------------------------------------
\* INFO < LOW < MEDIUM < HIGH < CRITICAL
SeverityOrder == <<"INFO", "LOW", "MEDIUM", "HIGH", "CRITICAL">>

Ordinal(severity) == CHOOSE i \in DOMAIN SeverityOrder : SeverityOrder[i] = severity

\* a condition of a rule as the specification reads it
ConditionStated(alert, cond) ==
  IF cond[1] = "risk_score"
    THEN cond[2] <= alert.risk_score /\ (cond[3] = -1 \/ alert.risk_score <= cond[3])
  ELSE IF cond[1] = "expense_amount"
    THEN cond[2] <= alert.expense_amount /\ (cond[3] = -1 \/ alert.expense_amount <= cond[3])
  ELSE cond[2] = alert.risk_type

\* the alert qualifies for the rule
QualifiesFor(alert, rule) ==
  /\ Ordinal(alert.severity) >= Ordinal(rule.severity_threshold)
  /\ \A i \in DOMAIN rule.conditions : ConditionStated(alert, rule.conditions[i])

\* C24: rule matching: an alert triggers an enabled NotificationRule's cooldown
\* check if and only if the alert's severity ordinal (INFO < LOW < MEDIUM < HIGH <
\* CRITICAL) is >= the rule's severity_threshold ordinal and every condition of
\* the rule holds (risk_score within [min,max], expense_amount within [min,max],
\* alert_type equal to the alert's risk type); a disabled rule never fires.
C24_RuleMatching ==
  request.endpoint = "_process_alert" =>
    /\ request.rule.enabled =>
         ((response.decision \in {"notify", "cooldown"})
            <=> QualifiesFor(request.alert, request.rule))
    /\ (~request.rule.enabled) => response.decision = "skipped"

\* an alert whose severity equals the threshold of a rule with two conditions,
\* both of which hold, met the rule's cooldown
C24_Witness ==
  /\ request.endpoint = "_process_alert"
  /\ Len(request.rule.conditions) = 2
  /\ request.alert.severity = request.rule.severity_threshold
  /\ response.decision = "cooldown"

\* ---- the cooldown belongs to the rule ---------------------------------------
\* the sends of rule r recorded so far
FiringsOf(r) ==
  {i \in DOMAIN notification_history :
     notification_history[i].rule = DefaultRules[r].name}

\* the user (third part of the alert id) the latest send of rule r was about
LastFiredUser(r) ==
  notification_history[CHOOSE i \in FiringsOf(r) : \A j \in FiringsOf(r) : j <= i].alert_id[3]

\* worker t looks at a qualifying alert about one user while the rule is in
\* the cooldown of a firing about another user
InCooldownOfOther(t) ==
  /\ Qualifies(t)
  /\ last_triggered[frame[t].ri] # NoneT
  /\ ~CooldownOver(frame[t].ri, last_triggered[frame[t].ri], now)
  /\ FiringsOf(frame[t].ri) # {}
  /\ LastFiredUser(frame[t].ri) # frame[t].alerts[frame[t].ai].user_id

\* C25: the cooldown is global per rule, not per entity: after a rule fired
\* for an alert about one user, a qualifying alert about a different user
\* processed within that rule's cooldown does not fire the rule, and the
\* firing (the stamp) leaves last_triggered of every other rule unchanged.
C25_GlobalPerRule ==
  [][ \A t \in Threads :
        /\ InCooldownOfOther(t) => ~Fires(t)
        /\ pc[t] = "stamp" /\ pc'[t] # "stamp" =>
             \A r \in RuleIds : r # frame[t].ri => last_triggered'[r] = last_triggered[r]
    ]_vars

\* a rule fired for one user and then stayed silent for a qualifying alert
\* about the other user, created within its cooldown; the other rules were
\* never stamped
C25_Witness ==
  \E r \in RuleIds : \E id \in DOMAIN active_alerts :
    /\ pc[MainThread] = "idle"
    /\ FiringsOf(r) # {}
    /\ last_triggered[r] # NoneT
    /\ LastFiredUser(r) # active_alerts[id].user_id
    /\ MatchesRule(active_alerts[id], DefaultRules[r])
    /\ id[2] >= last_triggered[r]
    /\ ~CooldownOver(r, last_triggered[r], id[2])
    /\ \A i \in FiringsOf(r) : notification_history[i].alert_id # id
    /\ \A q \in RuleIds : q # r => last_triggered[q] = NoneT

\* ---- claims about the sliding windows -------------------------------------------------
\* the stores the last analyze_real_time_risk call found
VelocitiesBefore == request.before[1]
ActivitiesBefore == request.before[2]

\* the entries of window w are no older than the monitoring window at time t
NoneOlder(w, t) == \A i \in DOMAIN w : w[i][1] >= t - monitoring_window_minutes

\* store `after` is store `before` except, possibly, at `key`
OnlyKeyTouched(before, after, key) ==
  /\ DOMAIN after = DOMAIN before \cup {key}
  /\ \A k \in DOMAIN before : k # key => after[k] = before[k]

\* C26: sliding-window bounds and lazy eviction: after any sequence of
\* analyze_real_time_risk calls every user's window holds at most 100 entries
\* and every group's at most 200; right after a call for user u and group g
\* the windows of u and g contain the current event and no entry older than
\* the monitoring window, and the windows of other keys are as they were
\* before the call.
C26_WindowBounds ==
  /\ \A u \in DOMAIN user_velocities : Len(user_velocities[u]) <= 100
  /\ \A g \in DOMAIN group_activities : Len(group_activities[g]) <= 200
  /\ RealTimeCalled =>
       LET u == Get(request.body, "user_id", "unknown")
           g == Get(request.body, "group_id", "unknown")
           uw == user_velocities[u]
           gw == group_activities[g]
       IN /\ uw # <<>> /\ uw[Len(uw)] = <<request.at, Get(request.body, "amount", 0)>>
          /\ gw # <<>> /\ gw[Len(gw)] = <<request.at, request.body>>
          /\ NoneOlder(uw, request.at)
          /\ NoneOlder(gw, request.at)
          /\ OnlyKeyTouched(VelocitiesBefore, user_velocities, u)
          /\ OnlyKeyTouched(ActivitiesBefore, group_activities, g)

\* a call for u1 in g1 found both windows full of entries 61 minutes old and
\* left only the current event in them, while the windows of u2 and g2 still
\* hold their old entry
C26_Witness ==
  /\ RealTimeCalled
  /\ request.body.user_id = "u1"
  /\ "u1" \in DOMAIN VelocitiesBefore /\ Len(VelocitiesBefore["u1"]) = 100
  /\ "g1" \in DOMAIN ActivitiesBefore /\ Len(ActivitiesBefore["g1"]) = 200
  /\ Len(user_velocities["u1"]) = 1
  /\ Len(group_activities["g1"]) = 1
  /\ "u2" \in DOMAIN user_velocities /\ "g2" \in DOMAIN group_activities
  /\ ~NoneOlder(user_velocities["u2"], request.at)
  /\ ~NoneOlder(group_activities["g2"], request.at)

\* ---- claims about the running means --------------------------------------------------
\* the amounts of the expenses submitted so far whose `field` (user_id or
\* group_id) is `key`, in the order of the calls; every request makes one
\* update_profiles call
RECURSIVE AmountsAbout(_, _, _)
AmountsAbout(events, field, key) ==
  IF events = <<>> THEN <<>>
  ELSE IF Head(events)[field] = key
         THEN <<Get(Head(events).details, "amount", 0)>> \o AmountsAbout(Tail(events), field, key)
         ELSE AmountsAbout(Tail(events), field, key)

\* the fraction avg is the arithmetic mean of the amounts
IsMeanOf(avg, amounts) ==
  avg[1] * Len(amounts) = SumSeq(amounts) * avg[2]

\* C27: group running mean: after n >= 1 update_profiles calls for a group
\* with amounts a1..an (profile created empty), the group's
\* avg_expense_amount equals the arithmetic mean (a1 + ... + an) / n.
C27_GroupMean ==
  \A g \in DOMAIN group_profiles :
    LET amounts == AmountsAbout(recent_events, "group_id", g) IN
    Len(amounts) >= 1 => IsMeanOf(group_profiles[g].avg_expense_amount, amounts)

\* C28: user running mean: after n update_profiles calls for a user whose
\* profile was created empty, total_expenses = n and avg_amount * n equals the
\* sum of the n amounts.
C28_UserMean ==
  \A u \in DOMAIN user_profiles :
    LET amounts == AmountsAbout(recent_events, "user_id", u) IN
    /\ user_profiles[u].total_expenses = Len(amounts)
    /\ IsMeanOf(user_profiles[u].avg_amount, amounts)

\* a user with three updates of three different amounts
C28_Witness ==
  \E u \in DOMAIN user_profiles :
    LET amounts == AmountsAbout(recent_events, "user_id", u) IN
    /\ user_profiles[u].total_expenses = 3
    /\ Len(amounts) = 3
    /\ Cardinality({amounts[i] : i \in DOMAIN amounts}) = 3
    /\ user_profiles[u].avg_amount = <<140 * MONEY, 1>>

\* ---- claims about the profiles ---------------------------------------------------------
NoDuplicates(q) == \A i, j \in DOMAIN q : q[i] = q[j] => i = j

\* C29: profile bounds: after any sequence of analyze_expense and
\* update_profiles calls, fraud or not, every user profile has at most 5
\* favorite categories, all different, at most 20 usual hours, at most 10
\* locations and a risk_score in [0,1]; every group profile has at most 5
\* common categories, a trust_score in [0,1] and risk_incidents equal to the
\* number of fraud updates applied to it.
C29_ProfileBounds ==
  /\ \A u \in DOMAIN user_profiles :
       /\ Len(user_profiles[u].favorite_categories) <= 5
       /\ NoDuplicates(user_profiles[u].favorite_categories)
       /\ Len(user_profiles[u].usual_times) <= 20
       /\ Len(user_profiles[u].frequent_locations) <= 10
       /\ 0 <= user_profiles[u].risk_score /\ user_profiles[u].risk_score <= SCALE
  /\ \A g \in DOMAIN group_profiles :
       /\ Len(group_profiles[g].common_categories) <= 5
       /\ 0 <= group_profiles[g].trust_score /\ group_profiles[g].trust_score <= SCALE
       /\ group_profiles[g].risk_incidents = Get(FraudLog, g, 0)

\* after more than twenty updates, ten of them fraud, the three histories of
\* u1 are full, its risk_score is 1 and the group has five categories
C29_Witness ==
  /\ "u1" \in DOMAIN user_profiles /\ "g1" \in DOMAIN group_profiles
  /\ user_profiles["u1"].total_expenses > 20
  /\ Len(user_profiles["u1"].favorite_categories) = 5
  /\ Len(user_profiles["u1"].usual_times) = 20
  /\ Len(user_profiles["u1"].frequent_locations) = 10
  /\ user_profiles["u1"].risk_score = SCALE
  /\ Len(group_profiles["g1"].common_categories) = 5
  /\ group_profiles["g1"].risk_incidents >= 10
  /\ group_profiles["g1"].trust_score < SCALE

\* ---- claims about the range of the signals -------------------------------------------
SignalNames ==
  {"velocity_risk", "pattern_risk", "coordination_risk", "anomaly_risk", "temporal_risk",
   "amount_suspicion"}

\* C30: signal ranges: for every sequence of valid events (amount > 0), each
\* of the six real-time signals (velocity, pattern, coordination, anomaly,
\* temporal, amount_suspicion) and their mean overall_realtime_risk lies in
\* [0,1]; the mean is a sixth of risk_total.
C30_SignalRanges ==
  (RealTimeCalled /\ \A i \in DOMAIN recent_events : recent_events[i].details.amount > 0) =>
     /\ DOMAIN response.risk_scores = SignalNames
     /\ \A s \in SignalNames :
          0 <= response.risk_scores[s] /\ response.risk_scores[s] <= SCALE
     /\ 0 <= response.risk_total /\ response.risk_total <= 6 * SCALE

\* an expense of 500 for food after two of 120 in another category: both
\* halves of the anomaly signal are at their maximum and the signal is 1
C30_Witness ==
  /\ RealTimeCalled
  /\ request.body.amount > 0
  /\ Len(recent_events) >= 3
  /\ response.risk_scores.anomaly_risk = SCALE
  /\ response.risk_scores.velocity_risk > SCALE \div 10
  /\ response.risk_total > SCALE

\* ---- a firing whose sends all failed -------------------------------------------------
\* every send of the latest firing of rule r failed
LastFiringFailed(r) ==
  /\ FiringsOf(r) # {}
  /\ LET last == CHOOSE i \in FiringsOf(r) : \A j \in FiringsOf(r) : j <= i
         id == notification_history[last].alert_id
     IN \A i \in FiringsOf(r) :
          notification_history[i].alert_id = id => notification_history[i].status = "failed"

\* C33: a rule's last_triggered is set every time the rule fires, even when
\* every channel send of that firing failed; qualifying alerts arriving during
\* the following cooldown are not dispatched, and a send that was made,
\* failed or not, is never repeated by the firing: the loop goes on to the
\* next channel or to the stamp.
C33_StampedThoughFailed ==
  [][ \A t \in Threads :
        /\ (pc[t] = "send" /\ pc'[t] # "send") => pc'[t] = "stamp"
        /\ (pc[t] = "stamp" /\ pc'[t] # "stamp") => last_triggered'[frame[t].ri] = now
        /\ ( /\ Qualifies(t)
             /\ LastFiringFailed(frame[t].ri)
             /\ last_triggered[frame[t].ri] # NoneT
             /\ ~CooldownOver(frame[t].ri, last_triggered[frame[t].ri], now) )
           => ~Fires(t)
        /\ (pc[t] = "send" /\ pc'[t] = "send"
              /\ Len(notification_history') > Len(notification_history))
           => frame'[t].ci = frame[t].ci + 1
    ]_vars

\* a rule whose only send failed is stamped, and an alert that qualifies for
\* it, created during the cooldown, was processed without any send
C33_Witness ==
  \E r \in RuleIds : \E id \in DOMAIN active_alerts :
    /\ pc[MainThread] = "idle"
    /\ \A i \in DOMAIN notification_history : notification_history[i].status = "failed"
    /\ LastFiringFailed(r)
    /\ last_triggered[r] # NoneT
    /\ MatchesRule(active_alerts[id], DefaultRules[r])
    /\ id[2] >= last_triggered[r]
    /\ ~CooldownOver(r, last_triggered[r], id[2])
    /\ \A i \in DOMAIN notification_history : notification_history[i].alert_id # id

\* ---- claims about the stored alerts --------------------------------------------------
\* worker t has just created alerts in process_risk_analysis
AlertsCreated(t) == pc[t] = "idle" /\ pc'[t] = "check"

\* C34: alert retention: every alert created by process_risk_analysis stays
\* stored in active_alerts under an id of its own: creating later alerts
\* neither replaces nor drops an earlier alert (its acknowledged and resolved
\* state included), and the number of stored alerts grows by the number of
\* alerts created.
C34_AlertsRetained ==
  [][ \A t \in Threads : AlertsCreated(t) =>
        /\ \A id \in DOMAIN active_alerts :
              id \in DOMAIN active_alerts' /\ active_alerts'[id] = active_alerts[id]
        /\ Cardinality(DOMAIN active_alerts')
             = Cardinality(DOMAIN active_alerts) + Len(frame'[t].alerts)
    ]_vars

\* the last call was acknowledge_alert or resolve_alert with an id that no
\* alert is stored under
UnknownIdCall ==
  /\ request' # request
  /\ request'.endpoint \in {"acknowledge_alert", "resolve_alert"}
  /\ request'.alert_id \notin DOMAIN active_alerts

\* C37: alert lifecycle: in every reachable state each stored alert that is
\* resolved is also acknowledged, resolved alerts are never returned by
\* get_active_alerts, and acknowledge_alert and resolve_alert on an unknown id
\* return false and change no alert.
C37_AlertLifecycle ==
  /\ [](\A id \in DOMAIN active_alerts :
           active_alerts[id].resolved => active_alerts[id].acknowledged)
  /\ [](request.endpoint = "get_active_alerts" =>
           \A a \in response.alerts :
              /\ ~a.resolved
              /\ a.id \in DOMAIN request.before /\ request.before[a.id] = a)
  /\ [][UnknownIdCall => (response'.result = FALSE /\ active_alerts' = active_alerts)]_vars

\* with one alert resolved and another one only acknowledged,
\* get_active_alerts returns the second alone
C37_Witness ==
  /\ request.endpoint = "get_active_alerts"
  /\ request.severity_filter = "none"
  /\ request.before = active_alerts
  /\ Cardinality(DOMAIN active_alerts) = 2
  /\ \E i, j \in DOMAIN active_alerts :
       /\ active_alerts[i].resolved /\ active_alerts[i].acknowledged
       /\ active_alerts[j].acknowledged /\ ~active_alerts[j].resolved
       /\ response.alerts = {active_alerts[j]}

\* ---- claims about the highest risk ---------------------------------------------------
\* every event analysed so far has an amount >= 0
AmountsNotNegative ==
  \A i \in DOMAIN recent_events : Get(recent_events[i].details, "amount", 0) >= 0

\* C35: for every sequence of events with amount >= 0, overall_realtime_risk
\* (a sixth of risk_total) stays strictly below 0.8, so analyze_real_time_risk
\* never returns risk_level CRITICAL: pattern <= 0.3, coordination <= 0.8,
\* temporal <= 0.7 and amount_suspicion <= 0.6 cap the mean of the six signals.
C35_NeverCritical ==
  (RealTimeCalled /\ AmountsNotNegative) =>
     /\ response.risk_scores.pattern_risk <= (3 * SCALE) \div 10
     /\ response.risk_scores.coordination_risk <= (8 * SCALE) \div 10
     /\ response.risk_scores.temporal_risk <= (7 * SCALE) \div 10
     /\ response.risk_scores.amount_suspicion <= (6 * SCALE) \div 10
     /\ response.risk_total < 6 * ((8 * SCALE) \div 10)
     /\ response.risk_level # "CRITICAL"

\* a cash advance of 10001 at an ATM on Saturday night, the fourth event
\* in a few minutes: temporal and amount_suspicion are at their caps, the
\* anomaly signal is 1 and the level is HIGH
C35_Witness ==
  /\ RealTimeCalled /\ AmountsNotNegative
  /\ request.at >= MinutesToSaturdayNight
  /\ response.risk_scores.temporal_risk = (7 * SCALE) \div 10
  /\ response.risk_scores.amount_suspicion = (6 * SCALE) \div 10
  /\ response.risk_scores.anomaly_risk = SCALE
  /\ response.risk_total > 4 * SCALE
  /\ response.risk_level = "HIGH"

\* C36: the pattern signal never exceeds 0.3 for any event (the four
\* indicator weights 0.3, 0.4, 0.3, 0.2 are summed and divided by 4), so no
\* pattern_risk alert candidate is ever emitted by analyze_real_time_risk.
C36_NoPatternAlert ==
  RealTimeCalled =>
     /\ response.risk_scores.pattern_risk <= (3 * SCALE) \div 10
     /\ \A i \in DOMAIN response.alerts : response.alerts[i].type # "pattern_risk"

\* all four indicators match, the signal is 0.3, and the call emits alert
\* candidates, none of them for the pattern signal
C36_Witness ==
  /\ RealTimeCalled
  /\ Get(request.body, "amount", 0) \in round_amounts
  /\ response.risk_scores.pattern_risk = (3 * SCALE) \div 10
  /\ response.alerts # <<>>
  /\ \A i \in DOMAIN response.alerts : response.alerts[i].type # "pattern_risk"

\* ---- claims about the model cache ---------------------------------------------------
CacheCalled == request.endpoint \in {"ModelCache", "ModelCache.get", "ModelCache.put", "ModelCache.clear"}

\* the last call was a put of a new key into a full cache
PutIntoFull ==
  /\ request.endpoint = "ModelCache.put"
  /\ request.key \notin DOMAIN request.before.cache
  /\ Cardinality(DOMAIN request.before.cache) >= request.before.max_size

\* the keys the last call removed from the cache
Evicted == DOMAIN request.before.cache \ DOMAIN model_cache.cache

\* C38: ModelCache is a bounded LRU: after any sequence of get/put/clear
\* calls (max_size >= 1) the cache holds at most max_size entries,
\* access_order lists exactly the cached keys once each, and a put of a new
\* key into a full cache evicts the key least recently touched by get or
\* put, never a more recently used one.
C38_BoundedLRU ==
  /\ model_cache.max_size >= 1
  /\ Cardinality(DOMAIN model_cache.cache) <= model_cache.max_size
  /\ NoDuplicates(model_cache.access_order)
  /\ {model_cache.access_order[i] : i \in DOMAIN model_cache.access_order}
       = DOMAIN model_cache.cache
  /\ PutIntoFull =>
       /\ Evicted = {request.touched_before[1]}
       /\ DOMAIN model_cache.cache = (DOMAIN request.before.cache \ Evicted) \cup {request.key}
  /\ (CacheCalled /\ ~PutIntoFull /\ request.endpoint \in {"ModelCache.get", "ModelCache.put"}) =>
       Evicted = {}
  /\ request.endpoint = "ModelCache.get" =>
       response.model = Get(request.before.cache, request.key, "None")

\* a put into a full cache of three evicts a key that was put first and
\* not read since, while the key put before it stays because a get touched it
C38_Witness ==
  /\ PutIntoFull
  /\ request.before.max_size = 3
  /\ Len(request.touched_before) = 3
  /\ request.before.access_order = request.touched_before
  /\ request.touched_before[3] = "default"
  /\ request.touched_before[1] = "v2"
  /\ Evicted = {"v2"}
  /\ "default" \in DOMAIN model_cache.cache

TypeOK ==
  /\ now \in 0..Max(MaxTime * MinutesPerTick, MaxMinutes)
  /\ \A r \in RuleIds : last_triggered[r] \in {NoneT} \cup 0..(MaxTime * MinutesPerTick)

====
